---- MODULE Spec2Model ----
(***************************************************************************)
(* SendEML (sendeml.ts): the byte-exact mail splitter / header rewriter    *)
(* and the SMTP reply classifier and reader.                               *)
(*                                                                         *)
(* Bytes are integers, a Uint8Array is a sequence of bytes, offsets are    *)
(* the code's 0-based offsets (element i of the code is element i+1 of the *)
(* sequence).  A JS string is a sequence of character codes.               *)
(***************************************************************************)
EXTENDS Integers, Sequences, FiniteSets, TLC

VARIABLES
    mail,       \* the byte buffer an operation of the mail half is applied to
    call,       \* the operation applied last, with its arguments
    ret,        \* what that operation returned
    line,       \* the reply line handed to the classifier
    verdict,    \* what isLastReply / isPositiveReply said of it
    stream,     \* the lines the server still has to deliver on the connection
    eof,        \* TRUE when the server closes the connection after them
    seen,       \* the lines recvLine has read so far, in order
    recvRet,    \* recvLine's result, NoResult while it is still in its loop
    settings,   \* the settings procJsonFile mapped from the JSON file
    revision,   \* which revision of sendMail runs: "fallback" or "abort"
    sess,       \* the sendMessages calls, by id (0: the call without id)
    server,     \* the reply scripts the servers of this run may deliver
    proc,       \* where procJsonFile is, and what it returned
    console,    \* the error lines procJsonFile's callers have logged
    input,      \* the arguments of a function applied on its own
    output      \* what that function returned

vars == <<mail, call, ret, line, verdict, stream, eof, seen, recvRet,
          settings, revision, server, sess, proc, console, input, output>>
mailVars == <<mail, call, ret>>
replyVars == <<line, verdict>>
recvVars == <<stream, eof, seen, recvRet>>
sessionVars == <<settings, revision, server, sess, proc, console>>
fnVars == <<input, output>>

(***************************************************************************)
(* Bounds of the model.                                                    *)
(***************************************************************************)
MaxRaw == 6         \* longest buffer over the raw alphabet
MaxLines == 4       \* most physical lines in a generated header
MaxLineLen == 5     \* longest reply line handed to the classifier
MaxStream == 3      \* most lines the server delivers to one recvLine
MaxFiles == 2       \* most entries of emlFiles
MaxRcpt == 2        \* most entries of toAddresses
MaxSessions == 2    \* most entries of emlFiles when calls run in parallel

(***************************************************************************)
(* Constants of the program.                                               *)
(***************************************************************************)
CR == 13
LF == 10
SPACE == 32
HTAB == 9
CRLF == <<CR, LF>>
DATE_BYTES == <<68, 97, 116, 101, 58>>
MESSAGE_ID_BYTES == <<77, 101, 115, 115, 97, 103, 101, 45, 73, 68, 58>>
EMPTY_LINE == <<CR, LF, CR, LF>>

(***************************************************************************)
(* The JS library operations the code relies on.                           *)
(***************************************************************************)
Min(S) == CHOOSE x \in S : \A y \in S : x <= y

\* TypedArray/Array.prototype.slice(start, end) for 0 <= start: the elements
\* at offsets start .. end-1, end clamped to the length.
Slice(s, start, end) ==
    SubSeq(s, start + 1, IF end > Len(s) THEN Len(s) ELSE end)

\* TypedArray.prototype.indexOf(v, offset): the first offset >= offset that
\* holds v, -1 when there is none.
IndexOf(buf, v, offset) ==
    LET S == {i \in offset..(Len(buf) - 1) : buf[i + 1] = v}
    IN  IF S = {} THEN -1 ELSE Min(S)

\* Array.prototype.findIndex(pred): the first offset whose element satisfies
\* pred, -1 when there is none.  hits[i + 1] is pred of the element at i.
FindIndex(hits) ==
    LET S == {i \in 0..(Len(hits) - 1) : hits[i + 1]}
    IN  IF S = {} THEN -1 ELSE Min(S)

\* bytes[i]: reading a typed array outside its bounds yields undefined,
\* which equals no byte; -1 stands for undefined.
At(bytes, i) == IF i >= 0 /\ i < Len(bytes) THEN bytes[i + 1] ELSE -1

(***************************************************************************)
(* Line decomposition.                                                     *)
(***************************************************************************)
isNotUpdate(updateDate, updateMessageId) == ~updateDate /\ ~updateMessageId

findCrIndex(buf, offset) == IndexOf(buf, CR, offset)

findLfIndex(buf, offset) == IndexOf(buf, LF, offset)

RECURSIVE findAllLfIndicesFrom(_, _)
findAllLfIndicesFrom(buf, offset) ==
    LET idx == findLfIndex(buf, offset)
    IN  IF idx = -1 THEN <<>>
        ELSE <<idx>> \o findAllLfIndicesFrom(buf, idx + 1)

findAllLfIndices(buf) == findAllLfIndicesFrom(buf, 0)

\* getRawLines with a fault: the synthetic boundary at length-1 is left out.
getRawLines_NoTail(bytes) ==
    LET ends == findAllLfIndices(bytes)
    IN  [k \in 1..Len(ends) |->
            Slice(bytes, IF k = 1 THEN 0 ELSE ends[k - 1] + 1, ends[k] + 1)]

getRawLines(bytes) ==
    LET ends == findAllLfIndices(bytes) \o <<Len(bytes) - 1>>
    IN  [k \in 1..Len(ends) |->
            Slice(bytes, IF k = 1 THEN 0 ELSE ends[k - 1] + 1, ends[k] + 1)]

RECURSIVE concatBytes(_)
concatBytes(bytesArray) ==
    IF bytesArray = <<>> THEN <<>>
    ELSE Head(bytesArray) \o concatBytes(Tail(bytesArray))

(***************************************************************************)
(* Header field matching and folding.                                      *)
(***************************************************************************)
\* header is DATE_BYTES or MESSAGE_ID_BYTES, never empty: the throw of
\* line 63 is not reachable from the callers.
matchHeader(ln, header) ==
    IF Len(ln) < Len(header) THEN FALSE
    ELSE \A i \in 1..Len(header) : header[i] = ln[i]

isDateLine(ln) == matchHeader(ln, DATE_BYTES)

\* isMessageIdLine with a fault: a Date line is taken for one too.
isMessageIdLine_OrDate(ln) ==
    matchHeader(ln, MESSAGE_ID_BYTES) \/ matchHeader(ln, DATE_BYTES)

isMessageIdLine(ln) == matchHeader(ln, MESSAGE_ID_BYTES)

\* makeNowDateLine(): "Date: " + the clock's date, time and zone + CRLF.  The
\* clock reading is the parameter now; the text is ASCII, which TextEncoder
\* encodes code for code.
makeNowDateLine(now) == DATE_BYTES \o <<SPACE>> \o now \o CRLF

\* makeRandomMessageIdLine(): "Message-ID: <" + random letters + ">" + CRLF.
\* The random string is the parameter randStr.
makeRandomMessageIdLine(randStr) ==
    MESSAGE_ID_BYTES \o <<SPACE, 60>> \o randStr \o <<62>> \o CRLF

isWsp(b) == b = SPACE \/ b = HTAB

isFoldedLine(bytes) == isWsp(IF Len(bytes) > 0 THEN bytes[1] ELSE 0)

\* dropFoldedLine with `idx === 0` and an empty result when no line is
\* unfolded.
dropFoldedLine_NoneLeft(lines) ==
    LET idx == FindIndex([k \in 1..Len(lines) |-> ~isFoldedLine(lines[k])])
    IN  IF idx = 0 THEN lines
        ELSE IF idx = -1 THEN <<>>
        ELSE Slice(lines, idx, Len(lines))

dropFoldedLine(lines) ==
    LET idx == FindIndex([k \in 1..Len(lines) |-> ~isFoldedLine(lines[k])])
    IN  IF idx <= 0 THEN lines ELSE Slice(lines, idx, Len(lines))

\* The predicate replaceLine is given: isDateLine or isMessageIdLine, by name.
Matches(matchLine, ln) ==
    IF matchLine = "isDateLine" THEN isDateLine(ln) ELSE isMessageIdLine(ln)

\* replaceLine with a fault: the line after the replaced one is always
\* dropped, folded or not.
replaceLine_DropNext(lines, matchLine, newLine) ==
    LET idx == FindIndex([k \in 1..Len(lines) |-> Matches(matchLine, lines[k])])
    IN  IF idx = -1 THEN lines
        ELSE Slice(lines, 0, idx) \o <<newLine>>
                \o Slice(lines, idx + 2, Len(lines))

\* replaceLine with a fault: every matching line is replaced.
replaceLine_EveryMatch(lines, matchLine, newLine) ==
    LET idx == FindIndex([k \in 1..Len(lines) |-> Matches(matchLine, lines[k])])
        p3 == dropFoldedLine(Slice(lines, idx + 1, Len(lines)))
    IN  IF idx = -1 THEN lines
        ELSE Slice(lines, 0, idx) \o <<newLine>>
                \o [k \in 1..Len(p3) |->
                        IF Matches(matchLine, p3[k]) THEN newLine ELSE p3[k]]

\* replaceLine with a fault: a new line that becomes the last line of a
\* header that does not end with CR LF is put in without its CR LF.
replaceLine_EndsAsGiven(lines, matchLine, newLine) ==
    LET idx == FindIndex([k \in 1..Len(lines) |-> Matches(matchLine, lines[k])])
    IN  IF idx = -1 THEN lines
        ELSE LET p1 == Slice(lines, 0, idx)
                 p3 == dropFoldedLine(Slice(lines, idx + 1, Len(lines)))
                 last == lines[Len(lines)]
                 cut == Len(last) < 2
                        \/ SubSeq(last, Len(last) - 1, Len(last)) # CRLF
                 p2 == IF p3 = <<>> /\ cut
                       THEN SubSeq(newLine, 1, Len(newLine) - 2)
                       ELSE newLine
             IN  p1 \o <<p2>> \o p3

\* newLine is the encoded result of the call makeLine().
replaceLine(lines, matchLine, newLine) ==
    LET idx == FindIndex([k \in 1..Len(lines) |-> Matches(matchLine, lines[k])])
    IN  IF idx = -1 THEN lines
        ELSE LET p1 == Slice(lines, 0, idx)
                 p2 == newLine
                 p3 == dropFoldedLine(Slice(lines, idx + 1, Len(lines)))
             IN  p1 \o <<p2>> \o p3

replaceDateLine(lines, now) ==
    replaceLine(lines, "isDateLine", makeNowDateLine(now))

replaceMessageIdLine(lines, randStr) ==
    replaceLine(lines, "isMessageIdLine", makeRandomMessageIdLine(randStr))

replaceHeader(header, updateDate, updateMessageId, now, randStr) ==
    LET lines == getRawLines(header)
        d == updateDate
        m == updateMessageId
        newLines ==
            IF d /\ m THEN replaceMessageIdLine(replaceDateLine(lines, now), randStr)
            ELSE IF d /\ ~m THEN replaceDateLine(lines, now)
            ELSE IF ~d /\ m THEN replaceMessageIdLine(lines, randStr)
            ELSE lines
    IN  concatBytes(newLines)

(***************************************************************************)
(* Mail splitting and reassembly.                                          *)
(***************************************************************************)
\* combineMail with a fault: header and body are joined by a single CR LF.
combineMail_OneCrlf(header, body) == concatBytes(<<header, CRLF, body>>)

combineMail(header, body) == concatBytes(<<header, EMPTY_LINE, body>>)

\* The loop with a fault: after a CR that does not start the pattern the scan
\* resumes two bytes on, skipping the byte after the CR.
RECURSIVE findEmptyLineFrom_Skip(_, _, _)
findEmptyLineFrom_Skip(bytes, offset, log) ==
    LET idx == findCrIndex(bytes, offset)
        started == [log EXCEPT !.offsets = Append(@, offset)]
    IN  IF idx = -1 \/ (idx + 3) >= Len(bytes)
        THEN [started EXCEPT !.idx = -1]
        ELSE LET looked == [started EXCEPT !.crs = Append(@, idx),
                               !.reads = @ \cup {idx + 1}]
             IN  IF At(bytes, idx + 1) = LF /\ At(bytes, idx + 2) = CR
                    /\ At(bytes, idx + 3) = LF
                 THEN [looked EXCEPT !.idx = idx]
                 ELSE findEmptyLineFrom_Skip(bytes, idx + 2, looked)

\* One run of findEmptyLine's loop from offset.  Besides the result idx the
\* run records, for the claims about the scan itself: offsets, the offset each
\* iteration started from; crs, the CR each iteration found; reads, the
\* offsets idx+1 .. idx+3 the run indexed bytes[] with (&& stops at the first
\* mismatch).
RECURSIVE findEmptyLineFrom(_, _, _)
findEmptyLineFrom(bytes, offset, log) ==
    LET idx == findCrIndex(bytes, offset)
        started == [log EXCEPT !.offsets = Append(@, offset)]
    IN  IF idx = -1 \/ (idx + 3) >= Len(bytes)
        THEN [started EXCEPT !.idx = -1]
        ELSE LET found == [started EXCEPT !.crs = Append(@, idx)]
                 r1 == {idx + 1}
                 r2 == IF At(bytes, idx + 1) = LF THEN r1 \cup {idx + 2} ELSE r1
                 r3 == IF At(bytes, idx + 1) = LF /\ At(bytes, idx + 2) = CR
                       THEN r2 \cup {idx + 3} ELSE r2
                 looked == [found EXCEPT !.reads = @ \cup r3]
             IN  IF At(bytes, idx + 1) = LF /\ At(bytes, idx + 2) = CR
                    /\ At(bytes, idx + 3) = LF
                 THEN [looked EXCEPT !.idx = idx]
                 ELSE findEmptyLineFrom(bytes, idx + 1, looked)

findEmptyLineRun(bytes) ==
    findEmptyLineFrom(bytes, 0,
        [idx |-> -1, offsets |-> <<>>, crs |-> <<>>, reads |-> {}])

findEmptyLine(bytes) == findEmptyLineRun(bytes).idx

\* The later revision of the scan: the bounds check is in hasNextLfCrLf and
\* the loop goes on to the next CR after a CR too close to the end.
\* hasNextLfCrLfReads is the set of offsets hasNextLfCrLf indexes bytes[]
\* with: every() stops at the first mismatch.
hasNextLfCrLf(bytes, idx) ==
    IF Len(bytes) < (idx + 4) THEN FALSE
    ELSE LET next == <<LF, CR, LF>>
         IN  \A i \in 0..2 : next[i + 1] = At(bytes, i + idx + 1)

hasNextLfCrLfReads(bytes, idx) ==
    IF Len(bytes) < (idx + 4) THEN {}
    ELSE LET next == <<LF, CR, LF>>
         IN  {i + idx + 1 : i \in {j \in 0..2 :
                \A k \in 0..(j - 1) : next[k + 1] = At(bytes, k + idx + 1)}}

RECURSIVE findEmptyLine2From(_, _, _)
findEmptyLine2From(bytes, offset, log) ==
    LET idx == findCrIndex(bytes, offset)
        started == [log EXCEPT !.offsets = Append(@, offset)]
    IN  IF idx = -1
        THEN [started EXCEPT !.idx = -1]
        ELSE LET looked == [started EXCEPT !.crs = Append(@, idx),
                               !.reads = @ \cup hasNextLfCrLfReads(bytes, idx)]
             IN  IF hasNextLfCrLf(bytes, idx)
                 THEN [looked EXCEPT !.idx = idx]
                 ELSE findEmptyLine2From(bytes, idx + 1, looked)

findEmptyLine2Run(bytes) ==
    findEmptyLine2From(bytes, 0,
        [idx |-> -1, offsets |-> <<>>, crs |-> <<>>, reads |-> {}])

findEmptyLine2(bytes) == findEmptyLine2Run(bytes).idx

\* {ok: false} carries no res; {ok: true, res: [header, body]}.
splitMail(bytes) ==
    LET idx == findEmptyLine(bytes)
    IN  IF idx = -1 THEN [ok |-> FALSE]
        ELSE LET header == Slice(bytes, 0, idx)
                 body == Slice(bytes, idx + Len(EMPTY_LINE), Len(bytes))
             IN  [ok |-> TRUE, res |-> <<header, body>>]

\* replaceMail with a fault, three ways: the rewrite runs over header and
\* body alike; the fast path for two false flags is missing; a failed split
\* falls back to the input bytes.
replaceMail_RewriteAll(bytes, updateDate, updateMessageId, now, randStr) ==
    IF isNotUpdate(updateDate, updateMessageId)
    THEN [ok |-> TRUE, res |-> bytes]
    ELSE IF ~splitMail(bytes).ok THEN [ok |-> FALSE]
    ELSE [ok |-> TRUE,
          res |-> replaceHeader(bytes, updateDate, updateMessageId, now, randStr)]

replaceMail_NoFastPath(bytes, updateDate, updateMessageId, now, randStr) ==
    LET mailRes == splitMail(bytes)
    IN  IF ~mailRes.ok THEN [ok |-> FALSE]
        ELSE [ok |-> TRUE,
              res |-> combineMail(replaceHeader(mailRes.res[1], updateDate,
                                                updateMessageId, now, randStr),
                                  mailRes.res[2])]

replaceMail_Fallback(bytes, updateDate, updateMessageId, now, randStr) ==
    LET mailRes == splitMail(bytes)
    IN  IF isNotUpdate(updateDate, updateMessageId) \/ ~mailRes.ok
        THEN [ok |-> TRUE, res |-> bytes]
        ELSE [ok |-> TRUE,
              res |-> combineMail(replaceHeader(mailRes.res[1], updateDate,
                                                updateMessageId, now, randStr),
                                  mailRes.res[2])]

replaceMail(bytes, updateDate, updateMessageId, now, randStr) ==
    IF isNotUpdate(updateDate, updateMessageId)
    THEN [ok |-> TRUE, res |-> bytes]
    ELSE LET mailRes == splitMail(bytes)
         IN  IF ~mailRes.ok THEN [ok |-> FALSE]
             ELSE LET header == mailRes.res[1]
                      body == mailRes.res[2]
                      replHeader == replaceHeader(header, updateDate,
                                                  updateMessageId, now, randStr)
                  IN  [ok |-> TRUE, res |-> combineMail(replHeader, body)]

(***************************************************************************)
(* SMTP reply classification and recvLine.                                 *)
(***************************************************************************)
makeError(msg) == [ok |-> FALSE, msg |-> msg]

\* The characters the RegExp "." does not match (no s flag): LF, CR, U+2028,
\* U+2029.
LineTerminators == {10, 13, 8232, 8233}

\* isLastReply with a fault: the pattern without its ".+", /^\d{3} /.
isLastReply_NoText(ln) ==
    /\ Len(ln) >= 4
    /\ \A i \in 1..3 : ln[i] \in 48..57
    /\ ln[4] = SPACE

\* /^\d{3} .+/.test(line): three characters 0-9, a space, and then at least
\* one character that "." matches, right after the space.
isLastReply(ln) ==
    /\ Len(ln) >= 5
    /\ \A i \in 1..3 : ln[i] \in 48..57
    /\ ln[4] = SPACE
    /\ ln[5] \notin LineTerminators

\* line[0] ?? "": the first character, "" for the empty line.
isPositiveReply(ln) ==
    LET first == IF Len(ln) > 0 THEN <<ln[1]>> ELSE <<>>
    IN  first = <<50>> \/ first = <<51>>

\* "Connection closed by foreign host"
CLOSED_MSG == <<67, 111, 110, 110, 101, 99, 116, 105, 111, 110, 32,
                99, 108, 111, 115, 101, 100, 32, 98, 121, 32,
                102, 111, 114, 101, 105, 103, 110, 32, 104, 111, 115, 116>>

NoResult == [ok |-> FALSE, pending |-> TRUE]

\* replyOf with a fault: the final line is a success whatever its code.
replyOf_AlwaysOk(lineStr) == [ok |-> TRUE, msg |-> lineStr]

\* What recvLine returns on a final line (lines 360-363).
replyOf(lineStr) ==
    IF isPositiveReply(lineStr) THEN [ok |-> TRUE, msg |-> lineStr]
    ELSE makeError(lineStr)

(***************************************************************************)
(* The inputs.                                                             *)
(***************************************************************************)
SeqsUpTo(S, n) == UNION {[1..k -> S] : k \in 0..n}

\* Buffers over CR, LF and one other byte ("x").
RawBuffers == SeqsUpTo({CR, LF, 120}, MaxRaw)

\* The physical lines headers are made of, without their CRLF: "Date:",
\* "Message-ID:", the folded lines " f" and "<TAB>g", and "X-Date:".
FieldLines == {DATE_BYTES, MESSAGE_ID_BYTES, <<SPACE, 102>>, <<HTAB, 103>>,
               <<88, 45>> \o DATE_BYTES}

RECURSIVE JoinCrlf(_)
JoinCrlf(ls) == IF ls = <<>> THEN <<>> ELSE Head(ls) \o CRLF \o JoinCrlf(Tail(ls))

\* Headers with every line CRLF-terminated, and the same with the last line
\* unterminated, as splitMail cuts them.
TerminatedHeaders == {JoinCrlf(ls) : ls \in SeqsUpTo(FieldLines, MaxLines)}

CutHeaders == {SubSeq(h, 1, Len(h) - 2) : h \in TerminatedHeaders \ {<<>>}}

Headers == TerminatedHeaders \cup CutHeaders

\* Bodies: empty, and one that itself looks like a folded Date field.
Bodies == {<<>>, DATE_BYTES \o CRLF \o <<SPACE, 98>>}

\* A mail is a header, CR LF CR LF and a body.
Mails == {h \o EMPTY_LINE \o b : h \in CutHeaders \cup {<<>>}, b \in Bodies}

Buffers == RawBuffers \cup Headers \cup Mails

\* The clock readings and the random strings the generators may produce.
Clock == {<<78>>, <<79>>}
RandStrs == {<<114>>, <<115>>}

\* A generator is called only when its flag is on.
Readings(d) == IF d THEN Clock ELSE {<<>>}
Draws(m) == IF m THEN RandStrs ELSE {<<>>}

\* Reply lines for the classifier: digits, space, hyphen, a letter and CR.
ReplyLines == SeqsUpTo({50, 51, 53, SPACE, 45, 120, CR}, MaxLineLen)

\* The lines a server sends to recvLine: "250-a", "250 a", "354 a", "550 a",
\* "250 " and the empty line.
ServerLines == {<<50, 53, 48, 45, 97>>, <<50, 53, 48, 32, 97>>,
                <<51, 53, 52, 32, 97>>, <<53, 53, 48, 32, 97>>,
                <<50, 53, 48, 32>>, <<>>}

\* call before any operation was applied, and after operation op.
Idle == [op |-> "idle", d |-> FALSE, m |-> FALSE, now |-> <<>>, randStr |-> <<>>]

Called(op) == [Idle EXCEPT !.op = op]

(***************************************************************************)
(* The mail half: an operation is applied to the buffer, or to the result  *)
(* of the operation before it.                                             *)
(***************************************************************************)
\* The values of the variables a specification does not use.
InitMailIdle == mail = <<>> /\ call = Idle /\ ret = <<>>
InitReplyIdle == line = <<>> /\ verdict = [op |-> "idle"]
InitRecvIdle == stream = <<>> /\ eof = FALSE /\ seen = <<>> /\ recvRet = NoResult
InitFnIdle == input = <<>> /\ output = <<>>
InitSessionIdle ==
    /\ settings = [useParallel |-> FALSE]
    /\ revision = "fallback"
    /\ server = {}
    /\ sess = <<>>
    /\ proc = [pc |-> "idle"]
    /\ console = <<>>

Init ==
    /\ mail \in Buffers
    /\ call = Idle
    /\ ret = <<>>
    /\ InitReplyIdle
    /\ InitRecvIdle
    /\ InitSessionIdle
    /\ InitFnIdle

GetRawLinesCall ==
    /\ call.op = "idle"
    /\ call' = Called("getRawLines")
    /\ ret' = getRawLines(mail)
    /\ UNCHANGED <<mail, replyVars, recvVars, sessionVars, fnVars>>

ConcatBytesCall ==
    /\ call.op = "getRawLines"
    /\ call' = Called("concatBytes")
    /\ ret' = concatBytes(ret)
    /\ UNCHANGED <<mail, replyVars, recvVars, sessionVars, fnVars>>

ReplaceHeaderCall ==
    /\ call.op = "idle"
    /\ \E d \in BOOLEAN, m \in BOOLEAN :
       \E now \in Readings(d), randStr \in Draws(m) :
        /\ call' = [op |-> "replaceHeader", d |-> d, m |-> m,
                    now |-> now, randStr |-> randStr]
        /\ ret' = replaceHeader(mail, d, m, now, randStr)
    /\ UNCHANGED <<mail, replyVars, recvVars, sessionVars, fnVars>>

FindEmptyLineCall ==
    /\ call.op = "idle"
    /\ call' = Called("findEmptyLine")
    /\ ret' = [run |-> findEmptyLineRun(mail), run2 |-> findEmptyLine2Run(mail)]
    /\ UNCHANGED <<mail, replyVars, recvVars, sessionVars, fnVars>>

SplitMailCall ==
    /\ call.op = "idle"
    /\ call' = Called("splitMail")
    /\ ret' = splitMail(mail)
    /\ UNCHANGED <<mail, replyVars, recvVars, sessionVars, fnVars>>

CombineMailCall ==
    /\ call.op = "splitMail"
    /\ ret.ok
    /\ call' = Called("combineMail")
    /\ ret' = combineMail(ret.res[1], ret.res[2])
    /\ UNCHANGED <<mail, replyVars, recvVars, sessionVars, fnVars>>

ReplaceMailCall ==
    /\ call.op = "idle"
    /\ \E d \in BOOLEAN, m \in BOOLEAN :
       \E now \in Readings(d), randStr \in Draws(m) :
        /\ call' = [op |-> "replaceMail", d |-> d, m |-> m,
                    now |-> now, randStr |-> randStr]
        /\ ret' = replaceMail(mail, d, m, now, randStr)
    /\ UNCHANGED <<mail, replyVars, recvVars, sessionVars, fnVars>>

Next ==
    \/ GetRawLinesCall
    \/ ConcatBytesCall
    \/ ReplaceHeaderCall
    \/ FindEmptyLineCall
    \/ SplitMailCall
    \/ CombineMailCall
    \/ ReplaceMailCall

Spec == Init /\ [][Next]_vars

(***************************************************************************)
(* The classifier applied to one line.                                     *)
(***************************************************************************)
InitReply ==
    /\ line \in ReplyLines
    /\ verdict = [op |-> "idle"]
    /\ InitMailIdle
    /\ InitRecvIdle
    /\ InitSessionIdle
    /\ InitFnIdle

Classify ==
    /\ verdict.op = "idle"
    /\ verdict' = [op |-> "classified", last |-> isLastReply(line),
                   positive |-> isPositiveReply(line)]
    /\ UNCHANGED <<line, mailVars, recvVars, sessionVars, fnVars>>

NextReply == Classify

SpecReply == InitReply /\ [][NextReply]_vars

(***************************************************************************)
(* recvLine: one action per readLine of its loop.  The server delivers the *)
(* lines of stream and then closes the connection (eof) or stays silent.   *)
(***************************************************************************)
InitRecv ==
    /\ stream \in SeqsUpTo(ServerLines, MaxStream)
    /\ eof \in BOOLEAN
    /\ seen = <<>>
    /\ recvRet = NoResult
    /\ InitMailIdle
    /\ InitReplyIdle
    /\ InitSessionIdle
    /\ InitFnIdle

\* readLine() returned null.
RecvClosed ==
    /\ recvRet = NoResult
    /\ stream = <<>>
    /\ eof
    /\ recvRet' = makeError(CLOSED_MSG)
    /\ UNCHANGED <<stream, eof, seen, mailVars, replyVars, sessionVars, fnVars>>

\* readLine() returned a line that is a last reply line.
RecvFinal ==
    /\ recvRet = NoResult
    /\ stream # <<>>
    /\ isLastReply(Head(stream))
    /\ seen' = Append(seen, Head(stream))
    /\ stream' = Tail(stream)
    /\ recvRet' = replyOf(Head(stream))
    /\ UNCHANGED <<eof, mailVars, replyVars, sessionVars, fnVars>>

\* readLine() returned any other line: the loop goes round.
RecvSkip ==
    /\ recvRet = NoResult
    /\ stream # <<>>
    /\ ~isLastReply(Head(stream))
    /\ seen' = Append(seen, Head(stream))
    /\ stream' = Tail(stream)
    /\ UNCHANGED <<recvRet, eof, mailVars, replyVars, sessionVars, fnVars>>

NextRecv == RecvClosed \/ RecvFinal \/ RecvSkip

SpecRecv == InitRecv /\ [][NextRecv]_vars

(***************************************************************************)
(* The SMTP session: what sendMessages and procJsonFile work on.  Paths,   *)
(* addresses and commands are JS strings (sequences of character codes).   *)
(***************************************************************************)
\* The command texts of sendHello .. sendCrlfDot.
EHLO_CMD == <<69, 72, 76, 79, 32, 108, 111, 99, 97, 108, 104, 111, 115, 116>>
QUIT_CMD == <<81, 85, 73, 84>>
RSET_CMD == <<82, 83, 69, 84>>
DATA_CMD == <<68, 65, 84, 65>>
CRLF_DOT_CMD == CRLF \o <<46>>
\* "MAIL FROM: <addr>" and "RCPT TO: <addr>".
MAIL_FROM_CMD(fromAddr) ==
    <<77, 65, 73, 76, 32, 70, 82, 79, 77, 58, 32, 60>> \o fromAddr \o <<62>>
RCPT_TO_CMD(addr) ==
    <<82, 67, 80, 84, 32, 84, 79, 58, 32, 60>> \o addr \o <<62>>

\* TextEncoder.encode: UTF-8, for character codes below 2048 (one byte per
\* code below 128, two bytes per code from 128 on).
RECURSIVE encode(_)
encode(str) ==
    IF \A k \in 1..Len(str) : str[k] < 128 THEN str
    ELSE LET c == Head(str)
         IN  (IF c < 128 THEN <<c>>
              ELSE <<192 + (c \div 64), 128 + (c % 64)>>) \o encode(Tail(str))

\* The bytes sendLine writes for a command.
sendLine(cmd) == encode(cmd \o CRLF)

\* An awaited call that rejected (the exception propagates).
Thrown == [ok |-> FALSE, thrown |-> TRUE]

\* recvLine with a fault: the end of the stream is not looked at, the loop
\* reads on.
RECURSIVE recvLine_ReadsOnAtEof(_, _)
recvLine_ReadsOnAtEof(lines, end) ==
    IF lines = <<>>
    THEN (IF end = "error" THEN [ok |-> FALSE, thrown |-> TRUE]
          ELSE [ok |-> FALSE, pending |-> TRUE])
    ELSE IF isLastReply(Head(lines)) THEN replyOf(Head(lines))
    ELSE recvLine_ReadsOnAtEof(Tail(lines), end)

\* recvLine on the lines the server delivers for one reply, after which the
\* server stays silent ("open"), closes ("eof") or the read fails ("error"):
\* the result of the loop of lines 350-366, NoResult when it never returns.
RECURSIVE recvLine(_, _)
recvLine(lines, end) ==
    IF lines = <<>>
    THEN (IF end = "eof" THEN makeError(CLOSED_MSG)
          ELSE IF end = "error" THEN Thrown
          ELSE NoResult)
    ELSE IF isLastReply(Head(lines)) THEN replyOf(Head(lines))
    ELSE recvLine(Tail(lines), end)

\* What a server may deliver for one reply: "250 a"; "250-a" "250 a";
\* "550 a"; "250-a" and then the close; a failing read; "250-a" and silence.
ReplyScripts ==
    {[lines |-> <<<<50, 53, 48, 32, 97>>>>, end |-> "open"],
     [lines |-> <<<<50, 53, 48, 45, 97>>, <<50, 53, 48, 32, 97>>>>, end |-> "open"],
     [lines |-> <<<<53, 53, 48, 32, 97>>>>, end |-> "open"],
     [lines |-> <<<<50, 53, 48, 45, 97>>>>, end |-> "eof"],
     [lines |-> <<>>, end |-> "error"],
     [lines |-> <<<<50, 53, 48, 45, 97>>>>, end |-> "open"]}

\* Once the server has closed, every later read is at the end of the stream.
ClosedScripts == {[lines |-> <<>>, end |-> "eof"]}

\* The file system: "a" is a mail with a Date field whose body is the line
\* ".x", "b" a file without CR LF CR LF, "d" a directory, "n" does not exist.
PATH_A == <<97>>
PATH_B == <<98>>
PATH_D == <<100>>
PATH_N == <<110>>
\* "Invalid mail" and ": "
INVALID_MAIL == <<73, 110, 118, 97, 108, 105, 100, 32, 109, 97, 105, 108>>
COLON_SPACE == <<58, 32>>

EmlPaths == {PATH_A, PATH_B, PATH_D, PATH_N}

\* Deno.stat(path): the kind of the entry, "absent" when stat rejects.
StatOf(path) ==
    IF path \in {PATH_A, PATH_B} THEN "file"
    ELSE IF path = PATH_D THEN "dir"
    ELSE "absent"

\* Deno.readFile(path) for a file.
ReadFile(path) ==
    IF path = PATH_A THEN DATE_BYTES \o EMPTY_LINE \o <<46, 120>>
    ELSE <<120, CR, LF>>

\* The recipients of the settings: a prefix of "x", "y", "z", ...
Recipients(n) == [k \in 1..n |-> <<119 + k>>]

\* The settings mapSettings returns.
SettingsOf(files, nrcpt, d, m, par) ==
    [fromAddress |-> <<102>>, toAddresses |-> Recipients(nrcpt),
     emlFiles |-> files, updateDate |-> d, updateMessageId |-> m,
     useParallel |-> par]

(***************************************************************************)
(* sendMessages: one record per call.  pc is the await the call stands at, *)
(* log what it has read and written on its connection, in order.           *)
(***************************************************************************)
NewSession(files, id) ==
    [pc |-> "connect", awaiting |-> "", files |-> files, id |-> id,
     fi |-> 1, ri |-> 1, reset |-> FALSE,
     conn |-> "none", closes |-> 0, log |-> <<>>, ret |-> NoResult,
     skipped |-> {}, peerClosed |-> FALSE, greeted |-> FALSE,
     firstErr |-> NoResult, wroteAfterErr |-> FALSE, rcptErr |-> FALSE]

\* The entries of log: one complete reply read, and one writeAll.
ReplyRead == [t |-> "read", bytes |-> <<>>]
Written(bytes) == [t |-> "write", bytes |-> bytes]

\* Finally with a fault: an exception leaves the connection open.
Finally_LeaksOnThrow(r, res) ==
    IF res = [ok |-> FALSE, thrown |-> TRUE]
    THEN [r EXCEPT !.pc = "done", !.ret = res]
    ELSE [r EXCEPT !.pc = "done", !.ret = res,
                   !.conn = "closed", !.closes = @ + 1]

\* try/finally of lines 413-444: the call ends with res and closes conn.
Finally(r, res) ==
    [r EXCEPT !.pc = "done", !.ret = res,
              !.conn = "closed", !.closes = @ + 1]

\* The head of the for loop (line 420): the next file, or QUIT after the last.
LoopHead(r) ==
    IF r.fi > Len(r.files) THEN [r EXCEPT !.pc = "quit"]
    ELSE [r EXCEPT !.pc = "isFile"]

\* SkipFile with a fault: the file passed over counts as a message sent.
SkipFile_SetsReset(r) ==
    LoopHead([r EXCEPT !.skipped = @ \cup {r.fi}, !.fi = @ + 1,
                       !.reset = TRUE])

\* Lines 422-425: the file is logged and passed over.
SkipFile(r) ==
    LoopHead([r EXCEPT !.skipped = @ \cup {r.fi}, !.fi = @ + 1])

\* Lines 436-437: after the reply to CRLF-DOT the flag is set.
AfterCrlfDot(r) ==
    LoopHead([r EXCEPT !.reset = TRUE, !.fi = @ + 1])

\* The head of sendRcptTo's loop (line 394): the next address, or DATA.
RcptHead(r) ==
    IF r.ri > Len(settings.toAddresses) THEN [r EXCEPT !.pc = "data"]
    ELSE [r EXCEPT !.pc = "rcpt"]

\* Resume with a fault: a refused RCPT TO ends the loop over the addresses.
Resume_StopOnRefusal(r, res) ==
    CASE r.awaiting = "greeting" -> [r EXCEPT !.pc = "ehlo"]
      [] r.awaiting = "EHLO" -> LoopHead(r)
      [] r.awaiting = "RSET" -> [r EXCEPT !.pc = "from"]
      [] r.awaiting = "MAIL" -> RcptHead([r EXCEPT !.ri = 1])
      [] r.awaiting = "RCPT" -> IF res.ok THEN RcptHead([r EXCEPT !.ri = @ + 1])
                                ELSE [r EXCEPT !.pc = "data"]
      [] r.awaiting = "DATA" -> [r EXCEPT !.pc = "mail"]
      [] r.awaiting = "DOT" -> AfterCrlfDot(r)
      [] r.awaiting = "QUIT" -> Finally(r, [ok |-> TRUE])

\* Resume with the result looked at: a failure other than a refused RCPT TO
\* ends the call with it.
Resume_HaltOnFailure(r, res) ==
    IF ~res.ok /\ (r.awaiting # "RCPT" \/ res = makeError(CLOSED_MSG))
    THEN Finally(r, res)
    ELSE CASE r.awaiting = "greeting" -> [r EXCEPT !.pc = "ehlo"]
           [] r.awaiting = "EHLO" -> LoopHead(r)
           [] r.awaiting = "RSET" -> [r EXCEPT !.pc = "from"]
           [] r.awaiting = "MAIL" -> RcptHead([r EXCEPT !.ri = 1])
           [] r.awaiting = "RCPT" -> RcptHead([r EXCEPT !.ri = @ + 1])
           [] r.awaiting = "DATA" -> [r EXCEPT !.pc = "mail"]
           [] r.awaiting = "DOT" -> AfterCrlfDot(r)
           [] r.awaiting = "QUIT" -> Finally(r, [ok |-> TRUE])

\* Where sendMessages goes on when the reply res to r.awaiting has come
\* (lines 417-440): no step looks at res.
Resume(r, res) ==
    CASE r.awaiting = "greeting" -> [r EXCEPT !.pc = "ehlo"]
      [] r.awaiting = "EHLO" -> LoopHead(r)
      [] r.awaiting = "RSET" -> [r EXCEPT !.pc = "from"]
      [] r.awaiting = "MAIL" -> RcptHead([r EXCEPT !.ri = 1])
      [] r.awaiting = "RCPT" -> RcptHead([r EXCEPT !.ri = @ + 1])
      [] r.awaiting = "DATA" -> [r EXCEPT !.pc = "mail"]
      [] r.awaiting = "DOT" -> AfterCrlfDot(r)
      [] r.awaiting = "QUIT" -> Finally(r, [ok |-> TRUE])

\* sendCmd's first half (lines 330-335, 372): the command is written and
\* its reply awaited.
Send(r, cmd, name) ==
    [r EXCEPT !.pc = "recv", !.awaiting = name,
              !.log = Append(@, Written(sendLine(cmd))),
              !.wroteAfterErr = @ \/ r.firstErr # NoResult]

\* The reply res has been read: what the claims need to know of it.
Noted(r, res) ==
    [r EXCEPT !.log = Append(@, ReplyRead),
              !.peerClosed = @ \/ res = makeError(CLOSED_MSG),
              !.greeted = @ \/ (r.awaiting = "greeting"
                                 /\ res # makeError(CLOSED_MSG)),
              !.firstErr = IF @ = NoResult /\ ~res.ok /\ r.awaiting # "RCPT"
                                          /\ r.awaiting # "greeting"
                                          /\ r.awaiting # "QUIT"
                           THEN res ELSE @,
              !.rcptErr = @ \/ (~res.ok /\ r.awaiting = "RCPT")]

\* sendMail with a fault: nothing is written when replaceMail fails.
sendMail_NothingOnFailure(file, updateDate, updateMessageId, now, randStr) ==
    LET replMail == replaceMail(ReadFile(file), updateDate, updateMessageId,
                                now, randStr)
    IN  IF replMail.ok THEN replMail.res ELSE <<>>

\* sendMail of sendeml.ts (lines 203-212): the bytes it writes.
sendMail(file, updateDate, updateMessageId, now, randStr) ==
    LET data == ReadFile(file)
        replMail == replaceMail(data, updateDate, updateMessageId, now, randStr)
    IN  IF replMail.ok THEN replMail.res ELSE data

\* sendMailAbort with a fault: the file is written when replaceMail fails.
sendMailAbort_Fallback(file, updateDate, updateMessageId, now, randStr) ==
    LET buf == replaceMail(ReadFile(file), updateDate, updateMessageId,
                           now, randStr)
    IN  [ok |-> TRUE, res |-> IF buf.ok THEN buf.res ELSE ReadFile(file)]

\* sendMail of the earlier revision (part_000 lines 199-208): a failure, or
\* ok with the bytes it writes.
sendMailAbort(file, updateDate, updateMessageId, now, randStr) ==
    LET buf == replaceMail(ReadFile(file), updateDate, updateMessageId,
                           now, randStr)
    IN  IF ~buf.ok THEN makeError(INVALID_MAIL)
        ELSE [ok |-> TRUE, res |-> buf.res]

\* The bytes sendMail may write for a file: what replaceMail returns for
\* it, or the file itself when replaceMail fails.
MailTable ==
    [file \in {PATH_A, PATH_B}, d \in BOOLEAN, m \in BOOLEAN |->
        {sendMail(file, d, m, now, randStr) :
            now \in Readings(d), randStr \in Draws(m)}]

MailBytes(file) ==
    MailTable[file, settings.updateDate, settings.updateMessageId]

\* What sendMail of the earlier revision may return for a file.
MailAbortTable ==
    [file \in {PATH_A, PATH_B}, d \in BOOLEAN, m \in BOOLEAN |->
        {sendMailAbort(file, d, m, now, randStr) :
            now \in Readings(d), randStr \in Draws(m)}]

MailAbortResults(file) ==
    MailAbortTable[file, settings.updateDate, settings.updateMessageId]

\* isParallel with a fault: the number of files is not looked at.
isParallel_AnyCount(s) == s.useParallel

\* Line 462: one call per file.
isParallel(s) == s.useParallel /\ Len(s.emlFiles) > 1

(***************************************************************************)
(* procJsonFile from line 462 on, and the calls of sendMessages it makes:  *)
(* one action per await of sendMessages.                                   *)
(***************************************************************************)
\* Settings that make procJsonFile take the branch of line 472.
SessionSettings ==
    {st \in {SettingsOf(files, nrcpt, d, m, par) :
                files \in SeqsUpTo(EmlPaths, MaxFiles), nrcpt \in 0..MaxRcpt,
                d \in BOOLEAN, m \in BOOLEAN, par \in BOOLEAN} :
        ~isParallel(st)}

InitSession ==
    /\ settings \in SessionSettings
    /\ revision \in {"fallback", "abort"}
    /\ server = ReplyScripts
    /\ sess = <<>>
    /\ proc = [pc |-> "start"]
    /\ console = <<>>
    /\ InitMailIdle
    /\ InitReplyIdle
    /\ InitRecvIdle
    /\ InitFnIdle

\* Lines 462-475: the calls are made; in the parallel branch procJsonFile
\* returns at once, in the other it awaits the one call.
Dispatch ==
    /\ proc.pc = "start"
    /\ IF isParallel(settings)
       THEN /\ sess' = [i \in 1..Len(settings.emlFiles) |->
                            NewSession(<<settings.emlFiles[i]>>, i)]
            /\ proc' = [pc |-> "returned", ret |-> [ok |-> TRUE]]
       ELSE /\ sess' = (0 :> NewSession(settings.emlFiles, 0))
            /\ proc' = [pc |-> "awaiting"]
    /\ UNCHANGED <<settings, revision, server, console,
                   mailVars, replyVars, recvVars, fnVars>>

\* procAfter with a fault: a call that ends without ok changes the result
\* procJsonFile has returned.
procAfter_Reflects(p, r) ==
    IF r.pc = "done" /\ (p.pc = "awaiting" \/ ~r.ret.ok)
    THEN [pc |-> IF r.ret = Thrown THEN "thrown" ELSE "returned", ret |-> r.ret]
    ELSE p

\* Line 472: procJsonFile returns what the call it awaits returned, or
\* throws what it threw; line 475 has returned already.
procAfter(p, r) ==
    IF r.pc = "done" /\ p.pc = "awaiting"
    THEN [pc |-> IF r.ret = Thrown THEN "thrown" ELSE "returned", ret |-> r.ret]
    ELSE p

\* Lines 465-468: the then callback logs the failure a call returned; a
\* rejection has no handler.
consoleAfter(out, p, r) ==
    IF r.pc = "done" /\ p.pc # "awaiting" /\ r.ret # Thrown /\ ~r.ret.ok
    THEN Append(out, r.ret.msg)
    ELSE out

\* Lines 465-468 again: then has no second callback and no catch follows, so
\* the exception of a call made there is a rejection nobody handles.
Unhandled(p, r) == r.pc = "done" /\ r.ret = Thrown /\ p.pc # "awaiting"

\* A call of a process that has ended takes no further step.
Killed(t) == IF t.pc = "done" THEN t ELSE [t EXCEPT !.pc = "killed"]

\* AfterStep with a fault: every rejection is handled.
AfterStep_Handled(s, r, fatal) == [sess EXCEPT ![s] = r]

\* The calls after a step of call s that leaves it as r; fatal says that
\* the runtime ends the process for a rejection nobody handles.
AfterStep(s, r, fatal) ==
    [t \in DOMAIN sess |->
        IF t = s THEN r ELSE IF fatal THEN Killed(sess[t]) ELSE sess[t]]

\* A step of call s that leaves it as r.  When the call ends, the callbacks
\* on its promise run before any other call takes a step; on a rejection
\* nobody handles the runtime reports it and goes on, or ends the process.
SessionStep(s, r) ==
    /\ \E fatal \in (IF Unhandled(proc, r) THEN BOOLEAN ELSE {FALSE}) :
            sess' = AfterStep(s, r, fatal)
    /\ proc' = procAfter(proc, r)
    /\ console' = consoleAfter(console, proc, r)
    /\ UNCHANGED <<settings, revision, server,
                   mailVars, replyVars, recvVars, fnVars>>

\* Line 411: Deno.connect resolves with a connection.
Connect(s) ==
    /\ sess[s].pc = "connect"
    /\ SessionStep(s, [sess[s] EXCEPT !.pc = "recv", !.awaiting = "greeting",
                                      !.conn = "open"])

\* Line 411: Deno.connect rejects; the try block is never entered.
ConnectFails(s) ==
    /\ sess[s].pc = "connect"
    /\ SessionStep(s, [sess[s] EXCEPT !.pc = "done", !.ret = Thrown])

\* recvLine (line 417, and the second half of every sendCmd).
RecvLine(s) ==
    /\ sess[s].pc = "recv"
    /\ \E script \in (IF sess[s].peerClosed THEN ClosedScripts ELSE server) :
        LET res == recvLine(script.lines, script.end)
        IN  SessionStep(s,
                IF res = NoResult THEN [sess[s] EXCEPT !.pc = "stalled"]
                ELSE IF res = Thrown THEN Finally(sess[s], Thrown)
                ELSE Resume(Noted(sess[s], res), res))

\* Line 418.
SendHello(s) ==
    /\ sess[s].pc = "ehlo"
    /\ SessionStep(s, Send(sess[s], EHLO_CMD, "EHLO"))

\* Lines 422-430: isFile, and what follows it without an await.
IsFile(s) ==
    /\ sess[s].pc = "isFile"
    /\ LET r == sess[s]
           kind == StatOf(r.files[r.fi])
       IN  SessionStep(s,
               IF kind = "absent" THEN Finally(r, Thrown)
               ELSE IF kind # "file" THEN SkipFile(r)
               ELSE IF r.reset THEN [r EXCEPT !.pc = "rset"]
               ELSE [r EXCEPT !.pc = "from"])

\* Line 429.
SendRset(s) ==
    /\ sess[s].pc = "rset"
    /\ SessionStep(s, Send(sess[s], RSET_CMD, "RSET"))

\* Line 432.
SendFrom(s) ==
    /\ sess[s].pc = "from"
    /\ SessionStep(s, Send(sess[s], MAIL_FROM_CMD(settings.fromAddress), "MAIL"))

\* Line 395, once per address.
SendRcptTo(s) ==
    /\ sess[s].pc = "rcpt"
    /\ SessionStep(s, Send(sess[s],
                           RCPT_TO_CMD(settings.toAddresses[sess[s].ri]), "RCPT"))

\* Line 434.
SendData(s) ==
    /\ sess[s].pc = "data"
    /\ SessionStep(s, Send(sess[s], DATA_CMD, "DATA"))

\* Line 435: sendMail reads the file and writes the mail.
SendMail(s) ==
    /\ sess[s].pc = "mail"
    /\ revision = "fallback"
    /\ LET r == sess[s]
       IN  \E bytes \in MailBytes(r.files[r.fi]) :
            SessionStep(s,
                [r EXCEPT !.pc = "dot",
                          !.log = Append(@, Written(bytes)),
                          !.wroteAfterErr = @ \/ r.firstErr # NoResult])

\* The same step of the earlier revision (part_000 lines 436-438).
SendMailAbort(s) ==
    /\ sess[s].pc = "mail"
    /\ revision = "abort"
    /\ LET r == sess[s]
       IN  \E res \in MailAbortResults(r.files[r.fi]) :
                SessionStep(s,
                    IF ~res.ok
                    THEN Finally(r, makeError(r.files[r.fi] \o COLON_SPACE
                                              \o res.msg))
                    ELSE [r EXCEPT !.pc = "dot",
                                   !.log = Append(@, Written(res.res)),
                                   !.wroteAfterErr = @ \/ r.firstErr # NoResult])

\* Line 436.
SendCrlfDot(s) ==
    /\ sess[s].pc = "dot"
    /\ SessionStep(s, Send(sess[s], CRLF_DOT_CMD, "DOT"))

\* Line 439.
SendQuit(s) ==
    /\ sess[s].pc = "quit"
    /\ SessionStep(s, Send(sess[s], QUIT_CMD, "QUIT"))

\* Deno.writeAll rejects (the peer is gone): the exception leaves the try
\* block through finally.  The earlier revision's sendMail writes only when
\* replaceMail succeeded.
WriteThrows(s) ==
    /\ sess[s].pc \in {"ehlo", "rset", "from", "rcpt", "data", "mail",
                       "dot", "quit"}
    /\ (sess[s].pc = "mail" /\ revision = "abort") =>
            \E res \in MailAbortResults(sess[s].files[sess[s].fi]) : res.ok
    /\ SessionStep(s, Finally(sess[s], Thrown))

NextSession ==
    \/ Dispatch
    \/ \E s \in DOMAIN sess : Connect(s)
    \/ \E s \in DOMAIN sess : ConnectFails(s)
    \/ \E s \in DOMAIN sess : RecvLine(s)
    \/ \E s \in DOMAIN sess : SendHello(s)
    \/ \E s \in DOMAIN sess : IsFile(s)
    \/ \E s \in DOMAIN sess : SendRset(s)
    \/ \E s \in DOMAIN sess : SendFrom(s)
    \/ \E s \in DOMAIN sess : SendRcptTo(s)
    \/ \E s \in DOMAIN sess : SendData(s)
    \/ \E s \in DOMAIN sess : SendMail(s)
    \/ \E s \in DOMAIN sess : SendMailAbort(s)
    \/ \E s \in DOMAIN sess : SendCrlfDot(s)
    \/ \E s \in DOMAIN sess : SendQuit(s)
    \/ \E s \in DOMAIN sess : WriteThrows(s)

SpecSession == InitSession /\ [][NextSession]_vars

(***************************************************************************)
(* The same with parallel calls: fewer settings, and servers that answer   *)
(* every command positively, fail the read or fall silent.                 *)
(***************************************************************************)
CalmScripts ==
    {sc \in ReplyScripts : recvLine(sc.lines, sc.end) \in
        {NoResult, Thrown, replyOf(<<50, 53, 48, 32, 97>>)}}

ParallelSettings ==
    {SettingsOf(files, 1, TRUE, FALSE, par) :
        files \in SeqsUpTo({PATH_A, PATH_B}, MaxSessions),
        par \in BOOLEAN}

InitParallel ==
    /\ settings \in ParallelSettings
    /\ revision \in {"fallback", "abort"}
    /\ server = CalmScripts
    /\ sess = <<>>
    /\ proc = [pc |-> "start"]
    /\ console = <<>>
    /\ InitMailIdle
    /\ InitReplyIdle
    /\ InitRecvIdle
    /\ InitFnIdle

SpecParallel == InitParallel /\ [][NextSession]_vars

\* The steps of call s.
SessionNext(s) ==
    /\ s \in DOMAIN sess
    /\ \/ Connect(s) \/ ConnectFails(s) \/ RecvLine(s) \/ SendHello(s)
       \/ IsFile(s) \/ SendRset(s) \/ SendFrom(s) \/ SendRcptTo(s)
       \/ SendData(s) \/ SendMail(s) \/ SendMailAbort(s) \/ SendCrlfDot(s)
       \/ SendQuit(s) \/ WriteThrows(s)

\* The event loop runs the continuation of every await whose operation has
\* completed: a call that can take a step takes one.
SessionFairness == \A s \in 0..MaxSessions : WF_vars(SessionNext(s))

SpecParallelFair == InitParallel /\ [][NextSession]_vars /\ SessionFairness

(***************************************************************************)
(* One call at a time, against a server that brings every reply to an end  *)
(* or against one that may also fall silent, with the event loop's         *)
(* fairness.                                                               *)
(***************************************************************************)
\* A server that sends nothing.
SilentScript == [lines |-> <<>>, end |-> "open"]

\* The deliveries that end: with a final line, with the close, or with a
\* failing read.
EndingScripts ==
    {sc \in ReplyScripts :
        \/ sc.end # "open"
        \/ \E k \in 1..Len(sc.lines) : isLastReply(sc.lines[k])}

\* The settings of these runs: the Date line is rewritten, and there is at
\* most one recipient.
ProgressSettings ==
    {st \in SessionSettings :
        /\ st.updateDate /\ ~st.updateMessageId
        /\ Len(st.toAddresses) <= 1}

InitProgress ==
    /\ settings \in ProgressSettings
    /\ revision \in {"fallback", "abort"}
    /\ server \in {EndingScripts, ReplyScripts \cup {SilentScript}}
    /\ sess = <<>>
    /\ proc = [pc |-> "start"]
    /\ console = <<>>
    /\ InitMailIdle
    /\ InitReplyIdle
    /\ InitRecvIdle
    /\ InitFnIdle

\* procJsonFile runs once main has called it, and the event loop runs the
\* continuation of every await whose operation has completed.
SpecProgress ==
    InitProgress /\ [][NextSession]_vars
    /\ WF_vars(Dispatch) /\ SessionFairness

(***************************************************************************)
(* The zone of the Date line.  getTimezoneOffset() is the parameter min,   *)
(* the other fields of the clock reading are the text stamp.               *)
(***************************************************************************)
\* The bounds of makeTimeZoneOffset, and how far beyond them min is drawn.
MIN_OFFSET == 0 - 840
MAX_OFFSET == 720
OffsetMargin == 2

Abs(n) == IF n < 0 THEN 0 - n ELSE n

\* String(n) for an integer n >= 0, and for any integer (-0 prints as "0").
RECURSIVE DigitsOf(_)
DigitsOf(n) ==
    IF n < 10 THEN <<48 + n>> ELSE Append(DigitsOf(n \div 10), 48 + (n % 10))

IntText(n) == IF n < 0 THEN <<45>> \o DigitsOf(0 - n) ELSE DigitsOf(n)

\* str.slice(-2)
SliceLast2(str) ==
    IF Len(str) <= 2 THEN str ELSE SubSeq(str, Len(str) - 1, Len(str))

\* padZero2 with a fault: the digits are not padded.
padZero2_NoPad(n) ==
    IF n < 0 \/ n > 99 THEN Thrown
    ELSE [ok |-> TRUE, res |-> IntText(n)]

\* padZero2 (part_000 lines 580-585), for an integer n.
padZero2(n) ==
    IF n < 0 \/ n > 99 THEN Thrown
    ELSE [ok |-> TRUE, res |-> SliceLast2(<<48>> \o IntText(n))]

\* makeTimeZoneOffset (part_000 lines 587-594), for an integer min.
makeTimeZoneOffset(min) ==
    IF min < MIN_OFFSET \/ min > MAX_OFFSET THEN Thrown
    ELSE LET first == padZero2(Abs(min) \div 60)
             last == padZero2(Abs(min) % 60)
         IN  IF ~first.ok \/ ~last.ok THEN Thrown
             ELSE [ok |-> TRUE,
                   res |-> <<IF min <= 0 THEN 43 ELSE 45>>
                           \o first.res \o last.res]

\* makeNowDateLine of part_000 (lines 596-608).
makeNowDateLineZoned(stamp, min) ==
    LET zone == makeTimeZoneOffset(min)
    IN  IF ~zone.ok THEN Thrown
        ELSE [ok |-> TRUE,
              res |-> makeNowDateLine(stamp \o <<SPACE>> \o zone.res)]

\* a % b of JS for integers: the sign is the dividend's.
JsRem(a, b) == IF a < 0 THEN 0 - ((0 - a) % b) ELSE a % b

\* offset / 60 has at most two decimals (offset is a multiple of 3).
HasShortQuotient(offset) == (Abs(offset) * 100) % 60 = 0

\* String(offset / 60) when it has at most two decimals.
QuotientText(offset) ==
    LET h == (Abs(offset) * 100) \div 60
        fr == h % 100
    IN  (IF offset < 0 THEN <<45>> ELSE <<>>)
        \o DigitsOf(h \div 100)
        \o (IF fr = 0 THEN <<>>
            ELSE IF fr % 10 = 0 THEN <<46, 48 + (fr \div 10)>>
            ELSE <<46, 48 + (fr \div 10), 48 + (fr % 10)>>)

\* lzero of sendeml.ts (line 81), on the text of its argument.
lzero(text) == SliceLast2(<<48>> \o text)

\* Lines 92-93 of sendeml.ts: the text of the zone after the sign.  A
\* quotient with a period prints with sixteen or seventeen digits, of which
\* lzero keeps the last two: tail.
timezone(min, tail) ==
    LET offset == 0 - min
    IN  (IF HasShortQuotient(offset) THEN lzero(QuotientText(offset)) ELSE tail)
        \o lzero(IntText(JsRem(offset, 60)))

\* makeNowDateLine of sendeml.ts (lines 80-96).
makeNowDateLineLzero(stamp, min, tail) ==
    [ok |-> TRUE,
     res |-> makeNowDateLine(stamp \o <<SPACE, 43>> \o timezone(min, tail))]

Offsets == (MIN_OFFSET - OffsetMargin)..(MAX_OFFSET + OffsetMargin)
STAMP == <<78>>
\* The last two digits a quotient with a period may print with.
Tails(min) ==
    IF HasShortQuotient(0 - min) THEN {<<>>}
    ELSE {<<48 + a, 48 + b>> : a \in 0..9, b \in 0..9}

InitZone ==
    /\ input \in [min : Offsets]
    /\ output = <<>>
    /\ InitMailIdle
    /\ InitReplyIdle
    /\ InitRecvIdle
    /\ InitSessionIdle

MakeNowDateLineZoned ==
    /\ output = <<>>
    /\ output' = [fn |-> "part_000", r |-> makeNowDateLineZoned(STAMP, input.min)]
    /\ UNCHANGED <<input, mailVars, replyVars, recvVars, sessionVars>>

MakeNowDateLineLzero ==
    /\ output = <<>>
    /\ \E tail \in Tails(input.min) :
        output' = [fn |-> "sendeml.ts",
                   r |-> makeNowDateLineLzero(STAMP, input.min, tail)]
    /\ UNCHANGED <<input, mailVars, replyVars, recvVars, sessionVars>>

NextZone == MakeNowDateLineZoned \/ MakeNowDateLineLzero

SpecZone == InitZone /\ [][NextZone]_vars

(***************************************************************************)
(* The checks of the settings.  A JSON value is a record of its kind t and *)
(* its value: the characters s of a string, the number n, the boolean b,   *)
(* the elements a of an array.  A JSON object is a function from its keys  *)
(* to values.                                                              *)
(***************************************************************************)
MaxElems == 2

JsNull == [t |-> "null", s |-> <<>>, n |-> 0, b |-> FALSE, a |-> <<>>]
JsString(str) == [JsNull EXCEPT !.t = "string", !.s = str]
JsNumber(n) == [JsNull EXCEPT !.t = "number", !.n = n]
JsBoolean(b) == [JsNull EXCEPT !.t = "boolean", !.b = b]
JsArray(elems) == [JsNull EXCEPT !.t = "array", !.a = elems]
JsObject == [JsNull EXCEPT !.t = "object"]
\* What find returns when no element satisfies the test.
Undefined == [JsNull EXCEPT !.t = "undefined"]

\* typeof v
typeofJs(v) ==
    IF v.t \in {"string", "number", "boolean", "undefined"} THEN v.t
    ELSE "object"

\* ToBoolean(v), as `if (v)` applies it.
Truthy(v) ==
    CASE v.t = "string" -> v.s # <<>>
      [] v.t = "number" -> v.n # 0
      [] v.t = "boolean" -> v.b
      [] v.t \in {"null", "undefined"} -> FALSE
      [] OTHER -> TRUE

\* elems.find(v => typeof v !== type)
RECURSIVE FindNotOfType(_, _)
FindNotOfType(elems, type) ==
    IF elems = <<>> THEN Undefined
    ELSE IF typeofJs(Head(elems)) # type THEN Head(elems)
    ELSE FindNotOfType(Tail(elems), type)

\* The texts of the error messages, with the values they quote.
InvalidType(name, v) == <<name, "Invalid type", v>>
InvalidTypeArray(name, v) == <<name, "Invalid type (array)", v>>
InvalidTypeElement(name, v) == <<name, "Invalid type (element)", v>>
KeyDoesNotExist(key) == <<key, "key does not exist">>

\* checkJsonValue (lines 283-290).
checkJsonValue(json, name, type) ==
    IF name \in DOMAIN json /\ typeofJs(json[name]) # type
    THEN makeError(InvalidType(name, json[name]))
    ELSE [ok |-> TRUE]

\* checkJsonArrayValue with the element test `elm !== undefined`.
checkJsonArrayValue_Defined(json, name, type) ==
    IF name \notin DOMAIN json THEN [ok |-> TRUE]
    ELSE IF json[name].t # "array"
    THEN makeError(InvalidTypeArray(name, json[name]))
    ELSE LET elm == FindNotOfType(json[name].a, type)
         IN  IF elm # Undefined THEN makeError(InvalidTypeElement(name, elm))
             ELSE [ok |-> TRUE]

\* checkJsonArrayValue (lines 292-303).
checkJsonArrayValue(json, name, type) ==
    IF name \notin DOMAIN json THEN [ok |-> TRUE]
    ELSE IF json[name].t # "array"
    THEN makeError(InvalidTypeArray(name, json[name]))
    ELSE LET elm == FindNotOfType(json[name].a, type)
         IN  IF Truthy(elm) THEN makeError(InvalidTypeElement(name, elm))
             ELSE [ok |-> TRUE]

\* The index of the first TRUE of hits, 0 when there is none.
FirstHit(hits) ==
    IF \E k \in 1..Len(hits) : hits[k]
    THEN Min({k \in 1..Len(hits) : hits[k]})
    ELSE 0

\* checkSettings (lines 305-324).
checkSettings(json) ==
    LET names == <<"smtpHost", "smtpPort", "fromAddress", "toAddresses",
                   "emlFiles">>
        key == FirstHit([k \in 1..Len(names) |-> names[k] \notin DOMAIN json])
        checks == <<checkJsonValue(json, "smtpHost", "string"),
                    checkJsonValue(json, "smtpPort", "number"),
                    checkJsonValue(json, "fromAddress", "string"),
                    checkJsonArrayValue(json, "toAddresses", "string"),
                    checkJsonArrayValue(json, "emlFiles", "string"),
                    checkJsonValue(json, "updateDate", "boolean"),
                    checkJsonValue(json, "updateMessageId", "boolean"),
                    checkJsonValue(json, "useParallel", "boolean")>>
        res == FirstHit([k \in 1..Len(checks) |-> ~checks[k].ok])
    IN  IF key # 0 THEN makeError(KeyDoesNotExist(names[key]))
        ELSE IF res # 0 THEN makeError(checks[res].msg)
        ELSE [ok |-> TRUE]

\* The values JSON.parse may put into an array, and under a key.
JsonElements ==
    {JsString(<<97>>), JsString(<<>>), JsNumber(0), JsNumber(1),
     JsBoolean(TRUE), JsBoolean(FALSE), JsNull, JsArray(<<>>), JsObject}

JsonValues ==
    JsonElements \cup {JsArray(elems) : elems \in SeqsUpTo(JsonElements, MaxElems)}

\* A settings object with all keys, and the same without one key.
SettingsJson(to, eml, flag) ==
    [k \in {"smtpHost", "smtpPort", "fromAddress", "toAddresses", "emlFiles",
            "updateDate"} |->
        CASE k = "smtpHost" -> JsString(<<104>>)
          [] k = "smtpPort" -> JsNumber(1)
          [] k = "fromAddress" -> JsString(<<102>>)
          [] k = "toAddresses" -> to
          [] k = "emlFiles" -> eml
          [] k = "updateDate" -> flag]

Without(json, key) == [k \in DOMAIN json \ {key} |-> json[k]]

ArrayInputs ==
    {[fn |-> "checkJsonArrayValue", json |-> json, name |-> "test", type |-> type] :
        json \in {<<>>} \cup {[k \in {"test"} |-> v] : v \in JsonValues},
        type \in {"string", "number", "boolean"}}

\* Values for the key that is not varied: arrays of strings, a value that
\* is no array, and arrays with an element of another type.
ShortValues ==
    {JsArray(<<>>), JsArray(<<JsString(<<97>>)>>), JsNull,
     JsArray(<<JsNumber(0)>>), JsArray(<<JsNumber(1)>>)}

SettingsInputs ==
    {[fn |-> "checkSettings", json |-> json] :
        json \in {SettingsJson(to, eml, JsBoolean(TRUE)) :
                        to \in JsonValues, eml \in ShortValues}
                 \cup {SettingsJson(to, eml, JsBoolean(TRUE)) :
                        to \in ShortValues, eml \in JsonValues}
                 \cup {SettingsJson(JsArray(<<>>), JsArray(<<>>), flag) :
                        flag \in JsonElements}
                 \cup {Without(SettingsJson(JsArray(<<>>), JsArray(<<>>),
                                            JsBoolean(TRUE)), key) :
                        key \in {"smtpHost", "emlFiles", "updateDate"}}}

InitJson ==
    /\ input \in ArrayInputs \cup SettingsInputs
    /\ output = <<>>
    /\ InitMailIdle
    /\ InitReplyIdle
    /\ InitRecvIdle
    /\ InitSessionIdle

CheckJsonArrayValue ==
    /\ output = <<>>
    /\ input.fn = "checkJsonArrayValue"
    /\ output' = [r |-> checkJsonArrayValue(input.json, input.name, input.type)]
    /\ UNCHANGED <<input, mailVars, replyVars, recvVars, sessionVars>>

CheckSettings ==
    /\ output = <<>>
    /\ input.fn = "checkSettings"
    /\ output' = [r |-> checkSettings(input.json)]
    /\ UNCHANGED <<input, mailVars, replyVars, recvVars, sessionVars>>

NextJson == CheckJsonArrayValue \/ CheckSettings

SpecJson == InitJson /\ [][NextJson]_vars

(***************************************************************************)
(* The functions on the lines of a header, applied to the lines of one     *)
(* header: dropFoldedLine alone, the two rewrites one after the other in   *)
(* either order, and replaceHeader.                                        *)
(***************************************************************************)
\* output before any function was applied.
Unapplied(lines) ==
    [ops |-> <<>>, lines |-> lines, bytes |-> <<>>,
     d |-> FALSE, m |-> FALSE, now |-> <<>>, randStr |-> <<>>]

InitLines ==
    /\ input \in [header : Headers]
    /\ output = Unapplied(getRawLines(input.header))
    /\ InitMailIdle
    /\ InitReplyIdle
    /\ InitRecvIdle
    /\ InitSessionIdle

DropFoldedLine ==
    /\ output.ops = <<>>
    /\ output' = [output EXCEPT !.ops = <<"dropFoldedLine">>,
                                !.lines = dropFoldedLine(@)]
    /\ UNCHANGED <<input, mailVars, replyVars, recvVars, sessionVars>>

ReplaceDateLine ==
    /\ output.ops \in {<<>>, <<"replaceMessageIdLine">>}
    /\ \E now \in Clock :
        output' = [output EXCEPT !.ops = Append(@, "replaceDateLine"),
                                 !.lines = replaceDateLine(@, now),
                                 !.now = now]
    /\ UNCHANGED <<input, mailVars, replyVars, recvVars, sessionVars>>

ReplaceMessageIdLine ==
    /\ output.ops \in {<<>>, <<"replaceDateLine">>}
    /\ \E randStr \in RandStrs :
        output' = [output EXCEPT !.ops = Append(@, "replaceMessageIdLine"),
                                 !.lines = replaceMessageIdLine(@, randStr),
                                 !.randStr = randStr]
    /\ UNCHANGED <<input, mailVars, replyVars, recvVars, sessionVars>>

ReplaceHeader ==
    /\ output.ops = <<>>
    /\ \E d \in BOOLEAN, m \in BOOLEAN :
        \E now \in Readings(d), randStr \in Draws(m) :
            output' = [output EXCEPT
                          !.ops = <<"replaceHeader">>,
                          !.bytes = replaceHeader(input.header, d, m, now, randStr),
                          !.d = d, !.m = m, !.now = now, !.randStr = randStr]
    /\ UNCHANGED <<input, mailVars, replyVars, recvVars, sessionVars>>

NextLines ==
    \/ DropFoldedLine
    \/ ReplaceDateLine
    \/ ReplaceMessageIdLine
    \/ ReplaceHeader

SpecLines == InitLines /\ [][NextLines]_vars

(***************************************************************************)
(* What the claims speak of.                                               *)
(***************************************************************************)
\* The offsets k with k+3 < length at which CR LF CR LF stands.
Boundaries(bytes) ==
    {k \in 0..(Len(bytes) - 4) : SubSeq(bytes, k + 1, k + 4) = EMPTY_LINE}

HasBoundary(bytes) == Boundaries(bytes) # {}

HeaderOf(bytes) == SubSeq(bytes, 1, Min(Boundaries(bytes)))

BodyOf(bytes) == SubSeq(bytes, Min(Boundaries(bytes)) + 5, Len(bytes))

\* The 0-based offset of the first line of lines that starts with the field
\* name, -1 when there is none.
FirstField(lines, matchLine) ==
    FindIndex([k \in 1..Len(lines) |-> Matches(matchLine, lines[k])])

\* The offset just after the folded lines that directly follow line i.
FieldEnd(lines, i) ==
    LET S == {j \in (i + 1)..(Len(lines) - 1) : ~isFoldedLine(lines[j + 1])}
    IN  IF S = {} THEN Len(lines) ELSE Min(S)

\* The first field of that name: its line and its continuation lines.
FieldOf(lines, matchLine) ==
    LET i == FirstField(lines, matchLine)
    IN  IF i = -1 THEN <<>> ELSE SubSeq(lines, i + 1, FieldEnd(lines, i))

\* All the lines but those of the first field of that name.
StripField(lines, matchLine) ==
    LET i == FirstField(lines, matchLine)
    IN  IF i = -1 THEN lines
        ELSE SubSeq(lines, 1, i) \o SubSeq(lines, FieldEnd(lines, i) + 1, Len(lines))

\* The first field of that name is the line newLine and nothing more.
SingleLineField(lines, matchLine, newLine) ==
    /\ FieldOf(lines, matchLine) = <<newLine>>

(***************************************************************************)
(* C1: for every header with a "Date:" line and a "Message-ID:" line,      *)
(* replaceHeader(h, true, true) yields a header whose Date field and       *)
(* Message-ID field are each exactly the one generated physical line: no   *)
(* folded line of the original field follows it, wherever the field sits,  *)
(* the end of the header included.                                         *)
(***************************************************************************)
C1_OnePhysicalLineEach ==
    (/\ call.op = "replaceHeader"
     /\ call.d /\ call.m
     /\ FirstField(getRawLines(mail), "isDateLine") # -1
     /\ FirstField(getRawLines(mail), "isMessageIdLine") # -1)
    => /\ SingleLineField(getRawLines(ret), "isDateLine",
                          makeNowDateLine(call.now))
       /\ SingleLineField(getRawLines(ret), "isMessageIdLine",
                          makeRandomMessageIdLine(call.randStr))

(***************************************************************************)
(* C2: replaceHeader(h, true, false) leaves every byte outside the first   *)
(* Date field (its line and the folded lines directly after it) unchanged  *)
(* and in order, so the Message-ID field is line for line the original;    *)
(* replaceHeader(h, false, true) does the same with the fields swapped.    *)
(***************************************************************************)
C2_OtherLinesUnchanged ==
    call.op = "replaceHeader" =>
        LET old == getRawLines(mail)
            new == getRawLines(ret)
        IN  /\ (call.d /\ ~call.m) =>
                /\ concatBytes(StripField(new, "isDateLine"))
                     = concatBytes(StripField(old, "isDateLine"))
                /\ FieldOf(new, "isMessageIdLine") = FieldOf(old, "isMessageIdLine")
            /\ (~call.d /\ call.m) =>
                /\ concatBytes(StripField(new, "isMessageIdLine"))
                     = concatBytes(StripField(old, "isMessageIdLine"))
                /\ FieldOf(new, "isDateLine") = FieldOf(old, "isDateLine")

C2_Witness ==
    /\ call.op = "replaceHeader"
    /\ call.d /\ ~call.m
    /\ ret # mail
    /\ Len(FieldOf(getRawLines(mail), "isDateLine")) >= 2
    /\ Len(FieldOf(getRawLines(mail), "isMessageIdLine")) >= 2
    /\ FieldOf(getRawLines(ret), "isMessageIdLine")
         = FieldOf(getRawLines(mail), "isMessageIdLine")

(***************************************************************************)
(* C3: for a mail that holds CR LF CR LF and a flag pair with at least one *)
(* flag on, replaceMail returns ok and its result is the rewritten header, *)
(* CR LF CR LF and the original body: it ends with the original body and   *)
(* splits again.                                                           *)
(***************************************************************************)
C3_RewritesHeaderKeepsBody ==
    (/\ call.op = "replaceMail"
     /\ call.d \/ call.m
     /\ HasBoundary(mail))
    => /\ ret.ok
       /\ ret.res = replaceHeader(HeaderOf(mail), call.d, call.m,
                                  call.now, call.randStr)
                      \o EMPTY_LINE \o BodyOf(mail)
       /\ SubSeq(ret.res, Len(ret.res) - Len(BodyOf(mail)) + 1, Len(ret.res))
            = BodyOf(mail)
       /\ splitMail(ret.res).ok

C3_Witness ==
    /\ call.op = "replaceMail"
    /\ call.d /\ call.m
    /\ HasBoundary(mail)
    /\ BodyOf(mail) # <<>>
    /\ ret.ok
    /\ ret.res # mail
    /\ splitMail(ret.res).ok

(***************************************************************************)
(* C4: replaceMail(bytes, false, false) returns ok with exactly the input  *)
(* bytes for every byte sequence, those without CR LF CR LF and the empty  *)
(* one included.                                                           *)
(***************************************************************************)
C4_NoUpdateIsIdentity ==
    (call.op = "replaceMail" /\ ~call.d /\ ~call.m)
    => ret = [ok |-> TRUE, res |-> mail]

C4_Witness ==
    /\ call.op = "replaceMail"
    /\ ~call.d /\ ~call.m
    /\ mail # <<>>
    /\ ~HasBoundary(mail)
    /\ ret = [ok |-> TRUE, res |-> mail]

C6_CombineInvertsSplit ==
    /\ (call.op = "splitMail" /\ ret.ok)
         => ret.res = <<HeaderOf(mail), BodyOf(mail)>>
    /\ call.op = "combineMail" => ret = mail

C6_Witness ==
    /\ call.op = "combineMail"
    /\ ret = mail
    /\ HeaderOf(mail) # <<>>
    /\ BodyOf(mail) # <<>>

(***************************************************************************)
(* C7: for every byte sequence, concatenating the lines of getRawLines in  *)
(* order gives the sequence back: every byte is in exactly one line.       *)
(***************************************************************************)
C7_LinesConcatToInput ==
    /\ call.op = "getRawLines" =>
         /\ Len(ret) >= 1
         /\ \A k \in 1..(Len(ret) - 1) :
               Len(ret[k]) >= 1 /\ ret[k][Len(ret[k])] = LF
         /\ \A k \in 1..Len(ret) : \A i \in 1..(Len(ret[k]) - 1) : ret[k][i] # LF
    /\ call.op = "concatBytes" => ret = mail

C7_Witness ==
    /\ call.op = "concatBytes"
    /\ ret = mail
    /\ Len(mail) >= 3
    /\ mail[Len(mail)] = LF
    /\ \E i \in 1..(Len(mail) - 2) : mail[i] = LF /\ mail[i + 1] = LF

(***************************************************************************)
(* C8: findEmptyLine returns the smallest offset k with k+3 < length at    *)
(* which CR LF CR LF stands, and -1 exactly when there is none; the scan   *)
(* starts at 0 and after a CR that does not start the pattern resumes at   *)
(* that CR's offset + 1; no offset at or beyond the length is indexed; and *)
(* the revision with hasNextLfCrLf returns the same value.                 *)
(***************************************************************************)
C8_FindsFirstBoundary ==
    call.op = "findEmptyLine" =>
        LET r == ret.run
            r2 == ret.run2
        IN  /\ r.idx = (IF HasBoundary(mail) THEN Min(Boundaries(mail)) ELSE -1)
            /\ r.offsets[1] = 0
            /\ \A j \in 2..Len(r.offsets) : r.offsets[j] = r.crs[j - 1] + 1
            /\ \A i \in r.reads \cup r2.reads : 0 <= i /\ i < Len(mail)
            /\ r2.idx = r.idx

C8_Witness ==
    /\ call.op = "findEmptyLine"
    /\ ret.run.idx > 0
    /\ Len(ret.run.crs) >= 2
    /\ ret.run2.idx = ret.run.idx

(***************************************************************************)
(* C9: recvLine skips every line that is not a final reply line and        *)
(* returns on the first one that is: success with that line when it is     *)
(* positive, failure with that line as message when it is not.  When the   *)
(* connection closes before a final line was read it returns the failure   *)
(* "Connection closed by foreign host", which no final line yields.  It    *)
(* never returns on a non-final line and reads nothing after the first     *)
(* final line.                                                             *)
(***************************************************************************)
C9_RecvLineReturnsFirstFinal ==
    LET n == Len(seen)
        noFinalBefore(k) == \A i \in 1..k : ~isLastReply(seen[i])
        positive(l) == l[1] = 50 \/ l[1] = 51
    IN  /\ noFinalBefore(n - 1)
        /\ recvRet = NoResult => noFinalBefore(n)
        /\ recvRet # NoResult =>
             \/ /\ recvRet = [ok |-> FALSE, msg |-> CLOSED_MSG]
                /\ noFinalBefore(n)
                /\ stream = <<>> /\ eof
             \/ /\ n >= 1
                /\ isLastReply(seen[n])
                /\ recvRet.msg = seen[n]
                /\ recvRet.msg # CLOSED_MSG
                /\ recvRet.ok = positive(seen[n])
                /\ DOMAIN recvRet = {"ok", "msg"}

C9_Witness ==
    /\ Len(seen) >= 2
    /\ ~isLastReply(seen[1])
    /\ recvRet = [ok |-> FALSE, msg |-> seen[Len(seen)]]
    /\ stream # <<>>

(***************************************************************************)
(* C10 as stated: isLastReply(line) is true iff the line starts with three *)
(* decimal digits, then one space, then at least one further character;    *)
(* isPositiveReply(line) is true iff the first character is '2' or '3',    *)
(* and false for the empty line.                                           *)
(***************************************************************************)
C10_AnyFurtherCharacter ==
    verdict.op = "classified" =>
        /\ verdict.last
             = (/\ Len(line) >= 5
                /\ \A i \in 1..3 : line[i] \in 48..57
                /\ line[4] = SPACE)
        /\ verdict.positive = (Len(line) >= 1 /\ line[1] \in {50, 51})

(***************************************************************************)
(* C10 amended: isLastReply(line) is true iff the line starts with three   *)
(* decimal digits, then one space, then a character that is not a line     *)
(* terminator (LF, CR, U+2028, U+2029); isPositiveReply is as stated.      *)
(* "250 The last line" is last and positive, "550 Failure" is last and not *)
(* positive, "250-First line" is not last.                                 *)
(***************************************************************************)
C10_FurtherCharacterOnTheLine ==
    /\ verdict.op = "classified" =>
        /\ verdict.last
             = (/\ Len(line) >= 5
                /\ \A i \in 1..3 : line[i] \in 48..57
                /\ line[4] = SPACE
                /\ line[5] \notin {10, 13, 8232, 8233})
        /\ verdict.positive = (Len(line) >= 1 /\ line[1] \in {50, 51})
    /\ LET theLastLine == <<50, 53, 48, 32, 84, 104, 101, 32, 108, 97, 115,
                            116, 32, 108, 105, 110, 101>>
           failure == <<53, 53, 48, 32, 70, 97, 105, 108, 117, 114, 101>>
           firstLine == <<50, 53, 48, 45, 70, 105, 114, 115, 116, 32, 108,
                          105, 110, 101>>
       IN  /\ isLastReply(theLastLine) /\ isPositiveReply(theLastLine)
           /\ isLastReply(failure) /\ ~isPositiveReply(failure)
           /\ ~isLastReply(firstLine)
           /\ ~isLastReply(SubSeq(theLastLine, 1, 3))
           /\ ~isLastReply(SubSeq(theLastLine, 1, 4))
           /\ ~isPositiveReply(<<>>)

C10_Witness ==
    /\ verdict.op = "classified"
    /\ verdict.last
    /\ ~verdict.positive
    /\ Len(line) = 5

(***************************************************************************)
(* What the claims on sessions speak of.                                   *)
(***************************************************************************)
\* The byte strings a call has written, in order.
IsWrite(e) == e.t = "write"
Writes(r) ==
    LET w == SelectSeq(r.log, IsWrite) IN [k \in 1..Len(w) |-> w[k].bytes]

EHLO_LINE == sendLine(EHLO_CMD)
RSET_LINE == sendLine(RSET_CMD)
QUIT_LINE == sendLine(QUIT_CMD)
DATA_LINE == sendLine(DATA_CMD)
CRLF_DOT_LINE == sendLine(CRLF_DOT_CMD)
MAIL_FROM_LINE == sendLine(MAIL_FROM_CMD(settings.fromAddress))

\* The writes that belong to a message: all but EHLO, RSET and QUIT.
IsMessageWrite(b) == b \notin {EHLO_LINE, RSET_LINE, QUIT_LINE}
MessageWrites(r) == SelectSeq(Writes(r), IsMessageWrite)

\* What a message is made of: fixed lines, and the mail of a file.
LineSlot(cmd) == [kind |-> "line", bytes |-> sendLine(cmd), file |-> <<>>]
MailSlot(file) == [kind |-> "mail", bytes |-> <<>>, file |-> file]

Fills(b, slot) ==
    IF slot.kind = "line" THEN b = slot.bytes ELSE b \in MailBytes(slot.file)

MessagePlan(file) ==
    <<LineSlot(MAIL_FROM_CMD(settings.fromAddress))>>
    \o [k \in 1..Len(settings.toAddresses) |->
            LineSlot(RCPT_TO_CMD(settings.toAddresses[k]))]
    \o <<LineSlot(DATA_CMD), MailSlot(file), LineSlot(CRLF_DOT_CMD)>>

\* The messages of the existing files, in list order.
RECURSIVE MessagesPlan(_)
MessagesPlan(files) ==
    IF files = <<>> THEN <<>>
    ELSE (IF StatOf(Head(files)) = "file" THEN MessagePlan(Head(files))
          ELSE <<>>) \o MessagesPlan(Tail(files))

FollowsPlan(w, plan) ==
    /\ Len(w) <= Len(plan)
    /\ \A k \in 1..Len(w) : Fills(w[k], plan[k])

\* C11: at every moment the message writes of a call are the beginning of
\* MAIL FROM, one RCPT TO per address in order, DATA, the mail and CRLF-DOT
\* for each existing file in list order, whatever the replies were; a call
\* that returns ok has written all of it.
C11_MessageStepsInOrder ==
    \A s \in DOMAIN sess :
        LET w == MessageWrites(sess[s])
            plan == MessagesPlan(sess[s].files)
        IN  /\ FollowsPlan(w, plan)
            /\ sess[s].ret.ok => Len(w) = Len(plan)

\* A call that sent two messages to two recipients returned ok although a
\* RCPT TO was refused.
C11_Witness ==
    \E s \in DOMAIN sess :
        /\ sess[s].ret.ok
        /\ sess[s].rcptErr
        /\ Len(settings.toAddresses) = 2
        /\ sess[s].files = <<PATH_B, PATH_A>>

\* The number of entries of w that equal b.
Count(w, b) == Cardinality({k \in 1..Len(w) : w[k] = b})

\* C12: nothing is written before one complete reply, the greeting, has
\* been read; the first write is EHLO and no later one is; QUIT is written
\* at most once and nothing after it, and a call that returns ok has
\* written it, whatever the file list.
C12_GreetingEhloQuit ==
    \A s \in DOMAIN sess :
        LET r == sess[s]
            w == Writes(r)
        IN  /\ w # <<>> => r.greeted /\ r.log[1].t = "read"
            /\ w # <<>> => w[1] = EHLO_LINE /\ Count(w, EHLO_LINE) = 1
            /\ Count(w, QUIT_LINE) <= 1
            /\ Count(w, QUIT_LINE) = 1 => w[Len(w)] = QUIT_LINE
            /\ r.ret.ok => Count(w, QUIT_LINE) = 1

\* C13: a MAIL FROM directly follows a RSET exactly when a CRLF-DOT was
\* written before it on the connection, a RSET is followed by nothing but
\* MAIL FROM, and a call that returns ok after n messages has written
\* max(n-1, 0) RSETs.
C13_RsetBetweenMessages ==
    \A s \in DOMAIN sess :
        LET r == sess[s]
            w == Writes(r)
            from == MAIL_FROM_LINE
            n == Count(w, from)
        IN  /\ \A k \in 1..Len(w) :
                    w[k] = from =>
                        ((k > 1 /\ w[k - 1] = RSET_LINE)
                            <=> \E j \in 1..(k - 1) : w[j] = CRLF_DOT_LINE)
            /\ \A k \in 1..(Len(w) - 1) :
                    w[k] = RSET_LINE => w[k + 1] = from
            /\ r.ret.ok =>
                    Count(w, RSET_LINE) = (IF n > 1 THEN n - 1 ELSE 0)

\* A call has sent two messages with a RSET between them and returned ok.
C13_Witness ==
    \E s \in DOMAIN sess :
        /\ sess[s].ret.ok
        /\ Count(Writes(sess[s]), MAIL_FROM_LINE) = 2
        /\ Count(Writes(sess[s]), RSET_LINE) = 1

\* C14: once EHLO, RSET, MAIL FROM, DATA or CRLF-DOT has got a negative
\* final reply, or the connection was closed before its final reply line,
\* the call writes nothing more, and when it has ended its result is that
\* failure, with the reply line (or the closed message) as its message.
C14_FailureStopsSession ==
    \A s \in DOMAIN sess :
        sess[s].firstErr # NoResult =>
            /\ ~sess[s].wroteAfterErr
            /\ sess[s].pc = "done" => sess[s].ret = sess[s].firstErr

\* C15: a call holds a closed connection exactly when it has ended and has
\* closed it once, a call that has ended holds no open connection, and a
\* call whose connection is closed does nothing more.
C15_ClosedOnceOnEveryExit ==
    /\ [](\A s \in DOMAIN sess :
            /\ sess[s].conn = "none" => sess[s].closes = 0
            /\ sess[s].conn = "open" =>
                    sess[s].closes = 0 /\ sess[s].pc # "done"
            /\ sess[s].conn = "closed" =>
                    sess[s].closes = 1 /\ sess[s].pc = "done")
    /\ [][\A s \in DOMAIN sess :
            sess[s].conn = "closed" => sess'[s] = sess[s]]_vars

\* A call that was ended by an exception after a message has closed its
\* connection.
C15_Witness ==
    \E s \in DOMAIN sess :
        /\ sess[s].ret = Thrown
        /\ sess[s].conn = "closed"
        /\ sess[s].closes = 1
        /\ Count(Writes(sess[s]), CRLF_DOT_LINE) = 1

\* C16: a call does not end at an absent path: it passes it over, logged
\* and with nothing written for it, and goes on to the next file.
C16_MissingFileSkipped ==
    \A s \in DOMAIN sess :
        LET r == sess[s]
        IN  /\ \A i \in 1..Len(r.files) :
                    (StatOf(r.files[i]) = "absent" /\ r.fi > i)
                        => i \in r.skipped
            /\ ~(/\ r.pc = "done"
                  /\ r.fi <= Len(r.files)
                  /\ StatOf(r.files[r.fi]) = "absent")

\* replaceMail is asked to rewrite a file that has no CR LF CR LF.
SplitFails(file) ==
    /\ settings.updateDate \/ settings.updateMessageId
    /\ ~HasBoundary(ReadFile(file))

\* The places of the plan that hold the mail of such a file.
FailingSlots(plan) ==
    {k \in 1..Len(plan) : plan[k].kind = "mail" /\ SplitFails(plan[k].file)}

\* C17: with sendMail of sendeml.ts, the mail written for a file on which
\* replaceMail fails is the file itself, byte for byte, CRLF-DOT is the
\* next write, no call returns a failure, and a call that returns ok has
\* written every message and QUIT.
C17_SplitFailureSendsOriginal ==
    revision = "fallback" =>
        \A s \in DOMAIN sess :
            LET r == sess[s]
                w == MessageWrites(r)
                plan == MessagesPlan(r.files)
            IN  /\ \A k \in FailingSlots(plan) :
                        /\ k <= Len(w) => w[k] = ReadFile(plan[k].file)
                        /\ k < Len(w) => w[k + 1] = CRLF_DOT_LINE
                /\ r.pc = "done" => r.ret \in {[ok |-> TRUE], Thrown}
                /\ r.ret.ok => /\ Len(w) = Len(plan)
                                /\ Count(Writes(r), QUIT_LINE) = 1

\* A call has sent a file without CR LF CR LF unchanged, then a second
\* message, and returned ok.
C17_Witness ==
    /\ revision = "fallback"
    /\ settings.updateDate
    /\ \E s \in DOMAIN sess :
        /\ sess[s].files = <<PATH_B, PATH_A>>
        /\ sess[s].ret.ok
        /\ \E k \in 1..Len(Writes(sess[s])) :
                Writes(sess[s])[k] = ReadFile(PATH_B)

\* C18: with sendMail of the earlier revision, nothing is written from the
\* mail of a file on which replaceMail fails onwards (no mail, no CRLF-DOT,
\* no later message) and no QUIT; the call that got the reply to DATA for
\* such a file ends with the failure "<file>: Invalid mail" and its
\* connection closed.
C18_SplitFailureAborts ==
    revision = "abort" =>
        \A s \in DOMAIN sess :
            LET r == sess[s]
                w == MessageWrites(r)
                plan == MessagesPlan(r.files)
            IN  /\ FailingSlots(plan) # {} =>
                        /\ \A k \in FailingSlots(plan) : Len(w) < k
                        /\ Count(Writes(r), QUIT_LINE) = 0
                        /\ ~r.ret.ok
                /\ (/\ r.pc = "done"
                     /\ r.awaiting = "DATA"
                     /\ r.log[Len(r.log)] = ReplyRead
                     /\ SplitFails(r.files[r.fi]))
                    => /\ r.ret = makeError(r.files[r.fi] \o COLON_SPACE
                                             \o INVALID_MAIL)
                       /\ r.conn = "closed"
                       /\ r.closes = 1

\* A call has sent one message and was then ended by the second file.
C18_Witness ==
    /\ revision = "abort"
    /\ \E s \in DOMAIN sess :
        /\ sess[s].files = <<PATH_A, PATH_B>>
        /\ sess[s].ret = makeError(PATH_B \o COLON_SPACE \o INVALID_MAIL)
        /\ sess[s].conn = "closed"
        /\ Count(Writes(sess[s]), CRLF_DOT_LINE) = 1

\* The calls that ended by returning a failure.
FailedCalls == {s \in DOMAIN sess : sess[s].pc = "done" /\ ~sess[s].ret.ok
                                                       /\ sess[s].ret # Thrown}

\* C19: once procJsonFile has made its calls, there is one call per entry
\* of emlFiles, call i with the i-th file alone and the id i, if
\* useParallel is set and emlFiles has more than one entry, and otherwise
\* one call without id with the whole list; before that there is no call.
C19_OneCallPerFileIffParallel ==
    IF proc.pc = "start" THEN sess = <<>>
    ELSE IF settings.useParallel /\ Len(settings.emlFiles) > 1
    THEN /\ DOMAIN sess = 1..Len(settings.emlFiles)
         /\ \A i \in DOMAIN sess :
                /\ sess[i].files = <<settings.emlFiles[i]>>
                /\ sess[i].id = i
    ELSE /\ DOMAIN sess = {0}
         /\ sess[0].files = settings.emlFiles
         /\ sess[0].id = 0

\* Two calls, one per file, hold a connection each.
C19_Witness ==
    /\ DOMAIN sess = {1, 2}
    /\ sess[1].conn = "open" /\ sess[1].files = <<PATH_A>>
    /\ sess[2].conn = "open" /\ sess[2].files = <<PATH_B>>

RECURSIVE MessagesWithRset(_, _)
MessagesWithRset(files, reset) ==
    IF files = <<>> THEN <<>>
    ELSE IF StatOf(Head(files)) # "file"
    THEN MessagesWithRset(Tail(files), reset)
    ELSE (IF reset THEN <<LineSlot(RSET_CMD)>> ELSE <<>>)
         \o MessagePlan(Head(files)) \o MessagesWithRset(Tail(files), TRUE)

SessionPlan(files) ==
    <<LineSlot(EHLO_CMD)>> \o MessagesWithRset(files, FALSE)
    \o <<LineSlot(QUIT_CMD)>>

\* A call has come to its end: it has ended and holds no open connection,
\* or its own server has fallen silent.
AtItsEnd(s) ==
    /\ s \in DOMAIN sess
    /\ \/ sess[s].pc = "stalled"
       \/ sess[s].pc = "done" /\ sess[s].conn # "open"

\* C21: what a call has written is at every moment the beginning of the
\* writes its own files and the settings give, and all of them up to QUIT
\* when it returned ok; a step of one call changes no other call; and
\* every call comes to its own end, whatever becomes of the others.
C21_SessionsIndependent ==
    /\ [](\A s \in DOMAIN sess :
            /\ FollowsPlan(Writes(sess[s]), SessionPlan(sess[s].files))
            /\ sess[s].ret.ok =>
                    Len(Writes(sess[s])) = Len(SessionPlan(sess[s].files)))
    /\ [][\A s \in DOMAIN sess :
            sess'[s] # sess[s] =>
                \A t \in DOMAIN sess \ {s} : sess'[t] = sess[t]]_vars
    /\ \A s \in 0..MaxSessions :
            [](s \in DOMAIN sess => <>AtItsEnd(s))

\* The zone field of a Date line: what stands between the last space and
\* the CR LF.
ZoneField(dateLine) ==
    LET text == SubSeq(dateLine, 1, Len(dateLine) - 2)
        sp == {k \in 1..Len(text) : text[k] = SPACE}
        from == CHOOSE k \in sp : \A j \in sp : j <= k
    IN  SubSeq(text, from + 1, Len(text))

TwoDigits(n) == <<48 + (n \div 10), 48 + (n % 10)>>

\* The zone the offset min is to print as.
ZoneAsClaimed(min) ==
    <<IF min <= 0 THEN 43 ELSE 45>>
    \o TwoDigits(Abs(min) \div 60) \o TwoDigits(Abs(min) % 60)

DateLineAsClaimed(out, min) ==
    IF min >= MIN_OFFSET /\ min <= MAX_OFFSET
    THEN out.ok /\ ZoneField(out.res) = ZoneAsClaimed(min)
    ELSE out = Thrown

\* C22: for an offset from -840 to 720 the zone field of the Date line is
\* the sign ('+' for min <= 0, '-' otherwise), floor(|min|/60) in two digits
\* and |min| mod 60 in two digits; for any other offset makeNowDateLine
\* throws and makes no line.
C22_ZoneOfDateLine ==
    output # <<>> => DateLineAsClaimed(output.r, input.min)

\* The same of the makeNowDateLine that uses makeTimeZoneOffset alone.
ZoneOfDateLineZoned ==
    (output # <<>> /\ output.fn = "part_000")
        => DateLineAsClaimed(output.r, input.min)

\* The value under name is an array of elements of the type.
IsArrayOf(json, name, type) ==
    /\ json[name].t = "array"
    /\ \A k \in 1..Len(json[name].a) : typeofJs(json[name].a[k]) = type

\* C23: checkJsonArrayValue returns ok exactly when the key is absent or
\* its value is an array whose elements all have the type, whatever the
\* elements are; and checkSettings returns ok for no settings whose
\* toAddresses or emlFiles has an element that is not a string.
C23_ArrayElementsChecked ==
    output # <<>> =>
        IF input.fn = "checkJsonArrayValue"
        THEN output.r.ok <=>
                (input.name \notin DOMAIN input.json
                    \/ IsArrayOf(input.json, input.name, input.type))
        ELSE output.r.ok =>
                /\ IsArrayOf(input.json, "toAddresses", "string")
                /\ IsArrayOf(input.json, "emlFiles", "string")

\* The lines the functions on lines were given.
GivenLines == getRawLines(input.header)

\* The suffix of lines that starts at its first line that is not folded.
FromFirstUnfolded(lines) ==
    LET unfolded == {k \in 1..Len(lines) : ~isFoldedLine(lines[k])}
    IN  IF unfolded = {} THEN <<>>
        ELSE SubSeq(lines, Min(unfolded), Len(lines))

\* C24: dropFoldedLine returns the suffix that starts at the first line
\* that is not folded: the result begins with no folded line, it is the
\* lines themselves when the first line is not folded, and it is empty when
\* every line is folded.
C24_DropsLeadingFoldedLines ==
    output.ops = <<"dropFoldedLine">> =>
        /\ output.lines = FromFirstUnfolded(GivenLines)
        /\ output.lines # <<>> => ~isFoldedLine(output.lines[1])
        /\ (GivenLines # <<>> /\ ~isFoldedLine(GivenLines[1]))
                => output.lines = GivenLines
        /\ (\A k \in 1..Len(GivenLines) : isFoldedLine(GivenLines[k]))
                => output.lines = <<>>

\* C25: with the two generated lines fixed, the Date rewrite followed by the
\* Message-ID rewrite gives the same lines as the Message-ID rewrite
\* followed by the Date rewrite.
C25_RewritesCommute ==
    /\ output.ops = <<"replaceDateLine", "replaceMessageIdLine">> =>
            output.lines =
                replaceDateLine(
                    replaceMessageIdLine(GivenLines, output.randStr), output.now)
    /\ output.ops = <<"replaceMessageIdLine", "replaceDateLine">> =>
            output.lines =
                replaceMessageIdLine(
                    replaceDateLine(GivenLines, output.now), output.randStr)

\* Both rewrites were applied, Message-ID first, to a header that has both
\* fields, the Date field folded, and each changed a line.
C25_Witness ==
    /\ output.ops = <<"replaceMessageIdLine", "replaceDateLine">>
    /\ Len(GivenLines) = 3
    /\ isDateLine(GivenLines[1])
    /\ isFoldedLine(GivenLines[2])
    /\ isMessageIdLine(GivenLines[3])
    /\ output.lines = <<makeNowDateLine(output.now),
                        makeRandomMessageIdLine(output.randStr)>>

\* The offsets (from 1) of the lines that match.
MatchingAt(lines, matchLine) ==
    {k \in 1..Len(lines) : Matches(matchLine, lines[k])}

\* got is lines with the first matching line replaced by newLine and with
\* some of the folded lines that follow it directly left out, and nothing
\* else changed; it is lines when no line matches.
OnlyFirstReplaced(lines, got, matchLine, newLine) ==
    LET at == MatchingAt(lines, matchLine)
    IN  IF at = {} THEN got = lines
        ELSE LET i == Min(at)
                 dropped == Len(lines) - Len(got)
             IN  /\ dropped >= 0
                 /\ Len(got) >= i
                 /\ SubSeq(got, 1, i - 1) = SubSeq(lines, 1, i - 1)
                 /\ got[i] = newLine
                 /\ \A k \in (i + 1)..(i + dropped) : isFoldedLine(lines[k])
                 /\ SubSeq(got, i + 1, Len(got))
                        = SubSeq(lines, i + 1 + dropped, Len(lines))

\* The lines of the header have a line that matches a rewrite that is on.
HasFieldToRewrite(lines, d, m) ==
    \/ d /\ MatchingAt(lines, "isDateLine") # {}
    \/ m /\ MatchingAt(lines, "isMessageIdLine") # {}

\* C26: a rewrite replaces the first matching line and leaves out only
\* folded lines that follow it directly, so every later matching line stays
\* as it is; without a matching line the lines are returned unchanged, and
\* replaceHeader returns the bytes of a header that has no field to rewrite.
C26_OnlyFirstMatchReplaced ==
    /\ output.ops = <<"replaceDateLine">> =>
            OnlyFirstReplaced(GivenLines, output.lines, "isDateLine",
                              makeNowDateLine(output.now))
    /\ output.ops = <<"replaceMessageIdLine">> =>
            OnlyFirstReplaced(GivenLines, output.lines, "isMessageIdLine",
                              makeRandomMessageIdLine(output.randStr))
    /\ (output.ops = <<"replaceHeader">>
            /\ ~HasFieldToRewrite(GivenLines, output.d, output.m))
        => output.bytes = input.header

\* The Date rewrite was applied to a header with two Date fields, the first
\* of them folded: the second is the last line of the result.
C26_Witness ==
    /\ output.ops = <<"replaceDateLine">>
    /\ Len(GivenLines) = 4
    /\ isDateLine(GivenLines[1])
    /\ isFoldedLine(GivenLines[2])
    /\ isDateLine(GivenLines[3])
    /\ output.lines = <<makeNowDateLine(output.now), GivenLines[3], GivenLines[4]>>

\* The bytes replaceMail may return for a file (none when it fails).
ReplacedTable ==
    [file \in {PATH_A, PATH_B}, d \in BOOLEAN, m \in BOOLEAN |->
        LET got == {replaceMail(ReadFile(file), d, m, now, randStr) :
                        now \in Readings(d), randStr \in Draws(m)}
        IN  {x.res : x \in {y \in got : y.ok}}]

ReplacedBytes(file) ==
    ReplacedTable[file, settings.updateDate, settings.updateMessageId]

\* The files of a call that are sent: the entries that are files.
IsSent(path) == StatOf(path) = "file"
SentFiles(files) == SelectSeq(files, IsSent)

\* Entry k of log is the write that follows the read after a DATA command.
IsMailAt(log, k) ==
    /\ k > 2
    /\ log[k].t = "write"
    /\ log[k - 1].t = "read"
    /\ log[k - 2] = Written(DATA_LINE)

\* The number of DATA commands among the first k entries of log.
DataBefore(log, k) ==
    Cardinality({j \in 1..k : log[j] = Written(DATA_LINE)})

\* C27: what is written after the reply to DATA is, byte for byte, what
\* replaceMail returned for the file of that message; it is written only
\* when the read after DATA ended with a complete reply (every such write
\* is the last entry at the moment it is made); CRLF-DOT is the next write
\* after it, and CRLF-DOT is written at no other place.
C27_MailBytesBetweenDataAndDot ==
    \A s \in DOMAIN sess :
        LET r == sess[s]
            log == r.log
        IN  \A k \in 1..Len(log) :
                /\ IsMailAt(log, k) =>
                    LET file == SentFiles(r.files)[DataBefore(log, k)]
                    IN  /\ ReplacedBytes(file) # {} =>
                                log[k].bytes \in ReplacedBytes(file)
                        /\ k = Len(log) => ~r.peerClosed
                        /\ k < Len(log) => log[k + 1] = Written(CRLF_DOT_LINE)
                /\ log[k] = Written(CRLF_DOT_LINE) => IsMailAt(log, k - 1)

\* C28: after a command is written the next thing on the connection is the
\* read of its reply; two writes follow each other only as the mail and
\* CRLF-DOT, two reads never; and at the moment of a write every read
\* before it ended with a complete reply.
C28_OneCommandOutstanding ==
    \A s \in DOMAIN sess :
        LET r == sess[s]
            log == r.log
        IN  /\ \A k \in 1..(Len(log) - 1) :
                    /\ (log[k].t = "write" /\ log[k + 1].t = "write") =>
                            /\ IsMailAt(log, k)
                            /\ log[k + 1] = Written(CRLF_DOT_LINE)
                    /\ ~(log[k].t = "read" /\ log[k + 1].t = "read")
            /\ (log # <<>> /\ log[Len(log)].t = "write") => ~r.peerClosed

\* The server brings every reply to an end.
ServerAnswers == server \subseteq EndingScripts

\* A call has terminated, and the connection it opened is closed.
Terminated(r) ==
    /\ r.pc = "done"
    /\ r.ret # NoResult
    /\ \/ r.conn = "closed" /\ r.closes = 1
       \/ r.conn = "none" /\ r.ret = Thrown /\ r.log = <<>>

AllTerminated ==
    /\ proc.pc # "start"
    /\ DOMAIN sess # {}
    /\ \A s \in DOMAIN sess : Terminated(sess[s])

\* C29: against a server that ends every reply with a final line or with
\* the close, every call terminates, by returning or by throwing, with its
\* connection closed, and stays so; a call whose server sends only
\* non-final lines or nothing for a reply has not terminated, keeps its
\* connection open and never takes another step.
C29_TerminatesUnlessServerStalls ==
    /\ ServerAnswers => <>[]AllTerminated
    /\ [](\A s \in DOMAIN sess :
            sess[s].pc = "stalled" =>
                /\ ~ServerAnswers
                /\ sess[s].conn = "open" /\ sess[s].closes = 0
                /\ sess[s].ret = NoResult)
    /\ [][\A s \in DOMAIN sess :
            sess[s].pc = "stalled" => sess'[s] = sess[s]]_vars
    /\ \A sc \in (ReplyScripts \cup {SilentScript}) \ EndingScripts :
            recvLine(sc.lines, sc.end) = NoResult

\* Every reply ended and the call has returned ok with its connection
\* closed, after a message.
C29_Witness ==
    /\ ServerAnswers
    /\ AllTerminated
    /\ \E s \in DOMAIN sess :
            /\ sess[s].ret.ok
            /\ \E k \in 1..Len(sess[s].log) : IsMailAt(sess[s].log, k)

\* replaceMail has been applied to a mail that splits, with the flags and
\* the generated values of call.
ReplacedASplitMail ==
    /\ call.op = "replaceMail"
    /\ splitMail(mail).ok

\* The header the call writes: replaceHeader on the header of the split.
RewrittenHeader ==
    replaceHeader(splitMail(mail).res[1], call.d, call.m, call.now, call.randStr)

\* C30: when replaceMail is applied to a mail that splits, with any pair of
\* flags, its result splits again, into the rewritten header and the body
\* of the given mail.
C30_ResplitsAtHeaderEnd ==
    ReplacedASplitMail =>
        /\ ret.ok
        /\ splitMail(ret.res).ok
        /\ splitMail(ret.res).res[1] = RewrittenHeader
        /\ splitMail(ret.res).res[2] = splitMail(mail).res[2]

\* The same for the mails whose rewritten header does not end with CR LF.
ResplitsWhenHeaderCut ==
    (ReplacedASplitMail
     /\ (Len(RewrittenHeader) < 2
         \/ SubSeq(RewrittenHeader, Len(RewrittenHeader) - 1,
                   Len(RewrittenHeader)) # CRLF)) =>
        /\ ret.ok
        /\ splitMail(ret.res).ok
        /\ splitMail(ret.res).res[1] = RewrittenHeader
        /\ splitMail(ret.res).res[2] = splitMail(mail).res[2]

====
